---- MODULE Spec2Model ----
(***************************************************************************)
(* A state-machine model of the wangle pipeline framework: the server and  *)
(* client dispatchers, the pipeline and its contexts, the terminal socket  *)
(* handler and the length-field frame decoder.  Each component has its own *)
(* group of variables, its own initial predicate and next-state relation,  *)
(* and leaves the variables of the other components unchanged.             *)
(***************************************************************************)
EXTENDS Integers, Sequences, FiniteSets, TLC

VARIABLES
  \* ---- server dispatchers (service/ServerDispatcher.h)
  srvKind,          \* which dispatcher class the handler is
  requestId_,       \* PipelinedServerDispatcher::requestId_
  lastWrittenId_,   \* PipelinedServerDispatcher::lastWrittenId_
  responses_,       \* PipelinedServerDispatcher::responses_ (id -> response)
  srvPending,       \* service eventuals not yet completed, with their continuation's captures
  srvArrived,       \* history: the requests read, in arrival order
  srvCompleted,     \* history: arrival indexes of the service calls, in completion order
  srvFailed,        \* history: arrival indexes of the service calls that failed
  srvWrites,        \* the responses fired with ctx->fireWrite, in order
  srvWriteExc,      \* number of ctx->fireWriteException calls
  srvThrown,        \* number of exceptions that escaped read()
  \* ---- client dispatchers (service/ClientDispatcher.h)
  cliKind,          \* which dispatcher class the handler is
  p_,               \* the promises held: Optional (serial) or deque (pipelined)
  cliFutures,       \* state of the eventual returned by the k-th operator() call
  cliSets,          \* number of completions of the k-th promise
  cliWrites,        \* the requests written with pipeline_->write, in order
  cliReads,         \* history: the responses delivered through read, in order
  cliState,         \* open, closed, destroyed, or the process has failed
  cliFault,         \* the failed precondition, if any
  cliCloseFired,    \* number of ctx->fireClose calls
  \* ---- pipeline and contexts (channel/Pipeline.h, Pipeline-inl.h, HandlerContext-inl.h)
  plR,              \* Pipeline<R, W>: the type R
  plW,              \* Pipeline<R, W>: the type W
  isStatic_,        \* Pipeline::isStatic_
  ctxTab,           \* the contexts created: handler class, links, attach state
  ctxs_,            \* PipelineBase::ctxs_
  inCtxs_,          \* PipelineBase::inCtxs_
  outCtxs_,         \* PipelineBase::outCtxs_
  front_,           \* Pipeline::front_
  back_,            \* Pipeline::back_
  owner_,           \* PipelineBase::owner_
  plNominated,      \* history: the handler of the last setOwner call that returned true
  plStatus,         \* building, finalized (finalize returned) or failed (it threw)
  plOwners,         \* shared_ptr<Pipeline> held outside the pipeline's own calls
  plCalls,          \* calls on contexts in progress, innermost last, each with its guard
  plDestroyed,      \* ~Pipeline has run
  detachLog,        \* contexts whose detachPipeline has run, in order
  \* ---- length-field frame decoder (codec/LengthFieldBasedFrameDecoder.cpp)
  lengthFieldLength_,     \* LengthFieldBasedFrameDecoder::lengthFieldLength_
  maxFrameLength_,        \* LengthFieldBasedFrameDecoder::maxFrameLength_
  lengthFieldOffset_,     \* LengthFieldBasedFrameDecoder::lengthFieldOffset_
  lengthAdjustment_,      \* LengthFieldBasedFrameDecoder::lengthAdjustment_
  initialBytesToStrip_,   \* LengthFieldBasedFrameDecoder::initialBytesToStrip_
  networkByteOrder_,      \* LengthFieldBasedFrameDecoder::networkByteOrder_
  lengthFieldEndOffset_,  \* LengthFieldBasedFrameDecoder::lengthFieldEndOffset_
  decWire,          \* the bytes the peer sends, in order
  decLenVal,        \* history: the value the peer wrote in the length field
  decPos,           \* number of bytes of decWire delivered so far
  decQueue,         \* the IOBufQueue the chunks are appended to
  decFrames,        \* the frames fired with ctx->fireRead, in order
  decExc,           \* the messages fired with ctx->fireReadException, in order
  decThrown,        \* the exception that escaped read(), or "none"
  \* ---- terminal socket handler (channel/AsyncSocketHandler.h)
  socket_,          \* AsyncSocketHandler::socket_: null, or the state of the transport
  sockReadCB,       \* the transport's read callback is this handler
  firedInactive_,   \* AsyncSocketHandler::firedInactive_
  pipelineDeleted_, \* AsyncSocketHandler::pipelineDeleted_
  manager_,         \* PipelineBase::manager_ is set
  writeFlags_,      \* PipelineBase::writeFlags_ has WRITE_SHUTDOWN
  transport_,       \* PipelineBase::transport_ is set
  sockAlive,        \* the pipeline and the handler exist
  sockLog,          \* history: the close and writeException calls that reached the handler
  sockDeleteDuring, \* history: the outermost call of sockLog during which the manager was invoked
  mgrDeletes,       \* number of manager_->deletePipeline calls
  sockInactives,    \* number of ctx->fireTransportInactive calls
  sockActives,      \* number of ctx->fireTransportActive calls
  \* ---- AsyncSocketHandler::write and its WriteCallback
  wrFutures,        \* the eventual each write call returned, in call order
  wrSubmits,        \* the writeChain calls made on the transport, in order
  wrPending,        \* the write calls whose WriteCallback the transport still holds, oldest first
  wrTrace,          \* the calls the last write call made on the manager and the transport, in order
  \* ---- events through the pipeline (Pipeline-inl.h, HandlerContext-inl.h, Handler.h)
  flCall,           \* the last call made: a pipeline entry point or a fire method of a context
  flLog,            \* the handler methods that call invoked, in order
  flResult,         \* how that call ended
  \* ---- Codel (concurrent/Codel.cpp), times in milliseconds
  codelMinDelay_,     \* Codel::codelMinDelay_
  codelIntervalTime_, \* Codel::codelIntervalTime_
  codelResetDelay_,   \* Codel::codelResetDelay_
  overloaded_,        \* Codel::overloaded_
  cdNow,              \* std::chrono::steady_clock::now() at the last call
  cdDelay,            \* the delay given to the last call of overloaded
  cdRet,              \* what that call returned
  cdAllLow,           \* every delay given so far was at most the target
  cdWindowMin,        \* the least delay given since the last rollover, the sample that rolled over included
  \* ---- Codel::overloaded called by several threads (concurrent/Codel.cpp)
  mtPc,  \* per thread, the statement of overloaded it is about to execute
  mtLocal,  \* per thread, its locals now, minDelay and delay
  mtCalls,  \* number of calls of overloaded begun
  mtLog, \* the rollovers and resets of the minimum performed, in order, each with its thread's now
  \* ---- EventBaseHandler (channel/EventBaseHandler.h)
  ebPc,  \* per calling thread, where it is in write or close
  ebLocal,  \* per calling thread, the call it is in and its local retval
  ebQueue,  \* the bodies handed to the loop thread and not yet run
  ebCalls,  \* number of calls of write and close begun
  ebFired,  \* the downstream fireWrite and fireClose calls, each with the thread it ran on
  ebReturned, \* the calls that returned, each with the eventual given to the caller
  \* ---- ClientBootstrap (bootstrap/ClientBootstrap.h)
  btAlive,  \* the bootstrap has not been destroyed
  sslContext_,  \* a TLS context is configured
  sslSessionEstablishedCallback_,  \* the bootstrap holds a session-established callback
  pipeline_,  \* the bootstrap's pipeline, NoPipeline when none
  btConns,  \* the connects begun: socket kind, callback held, outcome reported, eventual
  btLog, \* what connectSuccess and connectErr did, in order
  \* ---- Handlers shared between pipelines (channel/Handler.h, HandlerContext-inl.h, Pipeline-inl.h)
  shHs,  \* per handler object, its attachCount_ and ctx_
  shCtxs,  \* every context made, by number: its pipeline, handler, links and attached_
  shAll,  \* per pipeline, ctxs_
  shIn,  \* per pipeline, inCtxs_
  shOut,  \* per pipeline, outCtxs_
  shGone,  \* the pipelines destroyed
  shThrown,  \* what the last call threw, "none" when it returned
  shDetached, \* some context has been detached since the start
  \* ---- FixedLengthFrameDecoder (codec/FixedLengthFrameDecoder.h)
  length_,  \* the frame length the decoder was constructed with
  fxQueue,  \* the bytes queued and not yet given out
  fxFrames,  \* the frames fired, in order
  fxNeeded,  \* needed as the last call of decode left it
  fxChunks,  \* the lengths of the chunks received, in order
  fxSent, \* number of bytes received
  \* ---- the constructor of LengthFieldBasedFrameDecoder (codec/LengthFieldBasedFrameDecoder.cpp)
  ctOutcome,  \* "none" before the constructor ran, then "constructed" or "CHECK failed"
  ctLength,  \* the lengthFieldLength given
  ctMaxFrame,  \* the maxFrameLength given
  ctOffset, \* the lengthFieldOffset given
  \* ---- OutputBufferingHandler
  sends_,  \* the chain of buffered sends, <<>> for nullptr
  queueSends_,  \* the public member queueSends_
  sharedPromise_,  \* the SharedPromise the member holds, by its index in obPromises
  obScheduled,  \* isLoopCallbackScheduled()
  obPromises,  \* the state of every SharedPromise made so far
  obCalls,  \* the write calls so far: the buffer and the eventual returned
  obDown,  \* the writes fired downstream: buffers, result, promise to complete
  obCloses,  \* the number of closes fired downstream
  obLast  \* what the last handler call did, in order

srvVars == <<srvKind, requestId_, lastWrittenId_, responses_, srvPending,
             srvArrived, srvCompleted, srvFailed, srvWrites, srvWriteExc,
             srvThrown>>

cliVars == <<cliKind, p_, cliFutures, cliSets, cliWrites, cliReads, cliState,
             cliFault, cliCloseFired>>

plVars == <<plR, plW, isStatic_, ctxTab, ctxs_, inCtxs_, outCtxs_, front_,
            back_, owner_, plNominated, plStatus, plOwners, plCalls,
            plDestroyed, detachLog>>

decCfg == <<lengthFieldLength_, maxFrameLength_, lengthFieldOffset_,
            lengthAdjustment_, initialBytesToStrip_, networkByteOrder_,
            lengthFieldEndOffset_>>

decVars == <<decCfg, decWire, decLenVal, decPos, decQueue, decFrames, decExc,
             decThrown>>

sockVars == <<socket_, sockReadCB, firedInactive_, pipelineDeleted_, manager_,
              writeFlags_, transport_, sockAlive, sockLog, sockDeleteDuring,
              mgrDeletes, sockInactives, sockActives>>

wrVars == <<wrFutures, wrSubmits, wrPending, wrTrace>>

flowVars == <<flCall, flLog, flResult>>

codelVars == <<codelMinDelay_, codelIntervalTime_, codelResetDelay_, overloaded_,
               cdNow, cdDelay, cdRet, cdAllLow, cdWindowMin>>

mtVars == <<mtPc, mtLocal, mtCalls, mtLog>>

ebVars == <<ebPc, ebLocal, ebQueue, ebCalls, ebFired, ebReturned>>

btVars == <<btAlive, sslContext_, sslSessionEstablishedCallback_, pipeline_, btConns, btLog>>

shVars == <<shHs, shCtxs, shAll, shIn, shOut, shGone, shThrown, shDetached>>

fxVars == <<length_, fxQueue, fxFrames, fxNeeded, fxChunks, fxSent>>

ctVars == <<ctOutcome, ctLength, ctMaxFrame, ctOffset>>

obVars == <<sends_, queueSends_, sharedPromise_, obScheduled, obPromises, obCalls, obDown, obCloses, obLast>>

vars == <<srvVars, cliVars, plVars, decVars, sockVars, wrVars, flowVars, codelVars,
  mtVars,
  ebVars,
  btVars,
  shVars,
  fxVars,
  ctVars,
  obVars>>

\* what each component leaves alone
notSrv == <<cliVars, plVars, decVars, sockVars, wrVars, flowVars, codelVars,
  mtVars,
  ebVars,
  btVars,
  shVars,
  fxVars,
  ctVars,
  obVars>>
notCli == <<srvVars, plVars, decVars, sockVars, wrVars, flowVars, codelVars,
  mtVars,
  ebVars,
  btVars,
  shVars,
  fxVars,
  ctVars,
  obVars>>
notPl == <<srvVars, cliVars, decVars, sockVars, wrVars, flowVars, codelVars,
  mtVars,
  ebVars,
  btVars,
  shVars,
  fxVars,
  ctVars,
  obVars>>
notDec == <<srvVars, cliVars, plVars, sockVars, wrVars, flowVars, codelVars,
  mtVars,
  ebVars,
  btVars,
  shVars,
  fxVars,
  ctVars,
  obVars>>
notSock == <<srvVars, cliVars, plVars, decVars, wrVars, flowVars, codelVars,
  mtVars,
  ebVars,
  btVars,
  shVars,
  fxVars,
  ctVars,
  obVars>>
notWr == <<srvVars, cliVars, plVars, decVars, sockVars, flowVars, codelVars,
  mtVars,
  ebVars,
  btVars,
  shVars,
  fxVars,
  ctVars,
  obVars>>
notFlow == <<srvVars, cliVars, plVars, decVars, sockVars, wrVars, codelVars,
  mtVars,
  ebVars,
  btVars,
  shVars,
  fxVars,
  ctVars,
  obVars>>
notCodel == <<srvVars, cliVars, plVars, decVars, sockVars, wrVars, flowVars,
  mtVars,
  ebVars,
  btVars,
  shVars,
  fxVars,
  ctVars,
  obVars>>
\* the threads of Mt work on the Codel object's members
notMt == <<srvVars, cliVars, plVars, decVars, sockVars, wrVars, flowVars,
  ebVars,
  btVars,
  shVars,
  fxVars,
  ctVars,
  obVars>>
notEb == <<srvVars, cliVars, plVars, decVars, sockVars, wrVars, flowVars, codelVars, mtVars,
  btVars,
  shVars,
  fxVars,
  ctVars,
  obVars>>
notBt == <<srvVars, cliVars, plVars, decVars, sockVars, wrVars, flowVars, codelVars, mtVars, ebVars,
  shVars,
  fxVars,
  ctVars,
  obVars>>
notSh == <<srvVars, cliVars, plVars, decVars, sockVars, wrVars, flowVars, codelVars, mtVars, ebVars, btVars,
  fxVars,
  ctVars,
  obVars>>
notFx == <<srvVars, cliVars, plVars, decVars, sockVars, wrVars, flowVars, codelVars, mtVars, ebVars, btVars, shVars,
  ctVars,
  obVars>>
notCt == <<srvVars, cliVars, plVars, decVars, sockVars, wrVars, flowVars, codelVars, mtVars, ebVars, btVars, shVars, fxVars,
  obVars>>
notOb == <<srvVars, cliVars, plVars, decVars, sockVars, wrVars, flowVars, codelVars, mtVars, ebVars, btVars, shVars, fxVars, ctVars>>

----------------------------------------------------------------------------
(* Bounds of the model *)

\* requests read by a server dispatcher in one run
MaxRequests == 3
\* distinct request payloads
NumReqVals == 2

\* width, in bits, of the modelled request-id counters
IdBits == 3
\* calls made on a client dispatcher in one run
MaxCalls == 3
\* distinct response payloads read by a client dispatcher
NumRespVals == 2
\* close() calls on a client dispatcher in one run
MaxCloses == 2
\* contexts added to a pipeline under construction
MaxCtxs == 3
\* shared_ptr<Pipeline> held by the pipeline's users at one time
MaxOwners == 2
\* nested calls on contexts in progress at one time
MaxCallDepth == 2
\* decoder parameters: the largest field offset, adjustment and strip count
MaxOffset == 1
MaxAdjust == 1
MaxStrip == 2
\* the largest maxFrameLength of the small decoders
MaxFrameLen == 9
\* the largest small value the peer writes in the length field
MaxLenVal == 2
\* the most bytes the peer sends after the length field of a small frame
MaxTail == 3
\* close and writeException calls that reach the socket handler in one run
MaxSockCalls == 3
\* transportActive events in one run
MaxActives == 2
\* distinct messages given to a pipeline
NumMsgs == 2
\* write calls on the socket handler in one run
MaxWrites == 2
\* distinct buffers written
NumBufs == 2
\* the largest queueing delay given to the Codel detector, in ms
MaxDelay == 11
\* the time the steady clock reaches in one run, in ms
MaxTime == 303
\* threads calling the Codel detector
NumThreads == 2
\* calls of overloaded by all threads in one run
MaxMtCalls == 4
\* threads other than the loop thread that call the EventBaseHandler
NumCallers == 1
\* calls of write and close on the EventBaseHandler in one run
MaxEbCalls == 3
\* calls of connect on one client bootstrap
MaxConnects == 2
\* contexts made by addBack on all pipelines
MaxShCtxs == 3
\* the largest frame length of a FixedLengthFrameDecoder
MaxFixedLen == 3
\* bytes in one chunk given to the FixedLengthFrameDecoder
MaxChunk == 4
\* bytes given to the FixedLengthFrameDecoder in one run
MaxFxBytes == 9
\* calls of write on the OutputBufferingHandler in one run
MaxObWrites == 3
\* calls of close on the OutputBufferingHandler in one run
MaxObCloses == 1

Reqs == 1..NumReqVals

----------------------------------------------------------------------------
(* Helpers *)

Range(s) == {s[i] : i \in DOMAIN s}

\* The request ids are uint32_t counters.  TLC's integers stop below 2^32, so
\* the counters are modelled IdBits wide: arithmetic modulo 2^IdBits.
IdMod == 2 ^ IdBits
Inc32(x) == (x + 1) % IdMod

----------------------------------------------------------------------------
(* Server dispatchers *)

SrvKinds == {"serial", "pipelined", "multiplex"}

\* The user's service: the response it computes for a request.
ServiceResp(req) == <<"resp", req>>

NoResponses == [k \in {} |-> 0]

MapPut(m, k, v) == [x \in (DOMAIN m) \cup {k} |-> IF x = k THEN v ELSE m[x]]
MapErase(m, k) == [x \in (DOMAIN m) \ {k} |-> m[x]]

SrvInit ==
  /\ srvKind \in SrvKinds
  /\ requestId_ = 1
  /\ lastWrittenId_ = 0
  /\ responses_ = NoResponses
  /\ srvPending = {}
  /\ srvArrived = <<>>
  /\ srvCompleted = <<>>
  /\ srvFailed = {}
  /\ srvWrites = <<>>
  /\ srvWriteExc = 0
  /\ srvThrown = 0

SrvIdle ==
  /\ srvKind = "serial"
  /\ requestId_ = 1
  /\ lastWrittenId_ = 0
  /\ responses_ = NoResponses
  /\ srvPending = {}
  /\ srvArrived = <<>>
  /\ srvCompleted = <<>>
  /\ srvFailed = {}
  /\ srvWrites = <<>>
  /\ srvWriteExc = 0
  /\ srvThrown = 0

\* A mutant of the drain routine: lastWrittenId_ + 1 is computed wider than
\* the map's key, so that it never wraps to 0.
RECURSIVE sendResponsesWide(_, _, _)
sendResponsesWide(resps, last, writes) ==
  IF last + 1 \in DOMAIN resps
    THEN sendResponsesWide(MapErase(resps, last + 1), Inc32(last),
                           Append(writes, resps[last + 1]))
    ELSE [responses |-> resps, lastWritten |-> last, writes |-> writes]

\* A mutant of the drain routine: the response written stays in the map.
RECURSIVE sendResponsesKeeps(_, _, _)
sendResponsesKeeps(resps, last, writes) ==
  IF Inc32(last) \in DOMAIN resps
    THEN sendResponsesKeeps(resps, Inc32(last), Append(writes, resps[Inc32(last)]))
    ELSE [responses |-> resps, lastWritten |-> last, writes |-> writes]

\* A mutant of the drain routine: it writes whatever is buffered, lowest id
\* first, without waiting for lastWrittenId_ + 1.
RECURSIVE sendResponsesAnyId(_, _, _)
sendResponsesAnyId(resps, last, writes) ==
  IF DOMAIN resps = {}
    THEN [responses |-> resps, lastWritten |-> last, writes |-> writes]
    ELSE LET k == CHOOSE x \in DOMAIN resps : \A y \in DOMAIN resps : x <= y
         IN sendResponsesAnyId(MapErase(resps, k), Inc32(last),
                               Append(writes, resps[k]))

\* PipelinedServerDispatcher::sendResponses: while the map holds
\* lastWrittenId_ + 1, erase it, fire it as a write, increment lastWrittenId_.
RECURSIVE sendResponses(_, _, _)
sendResponses(resps, last, writes) ==
  IF Inc32(last) \in DOMAIN resps
    THEN sendResponses(MapErase(resps, Inc32(last)), Inc32(last),
                       Append(writes, resps[Inc32(last)]))
    ELSE [responses |-> resps, lastWritten |-> last, writes |-> writes]

\* SerialServerDispatcher::read with the service's eventual succeeding:
\* get() returns the response, which is fired as a write.
SerialRead(req) ==
  /\ srvKind = "serial"
  /\ Len(srvArrived) < MaxRequests
  /\ srvArrived' = Append(srvArrived, req)
  /\ srvCompleted' = Append(srvCompleted, Len(srvArrived) + 1)
  /\ srvWrites' = Append(srvWrites, ServiceResp(req))
  /\ UNCHANGED <<srvKind, requestId_, lastWrittenId_, responses_, srvPending,
                 srvFailed, srvWriteExc, srvThrown>>
  /\ UNCHANGED notSrv

\* SerialServerDispatcher::read with the service's eventual failing: get()
\* rethrows the failure, which leaves read() before fireWrite.
SerialReadFail(req) ==
  /\ srvKind = "serial"
  /\ Len(srvArrived) < MaxRequests
  /\ srvArrived' = Append(srvArrived, req)
  /\ srvCompleted' = Append(srvCompleted, Len(srvArrived) + 1)
  /\ srvFailed' = srvFailed \cup {Len(srvArrived) + 1}
  /\ srvThrown' = srvThrown + 1
  /\ UNCHANGED <<srvKind, requestId_, lastWrittenId_, responses_, srvPending,
                 srvWrites, srvWriteExc>>
  /\ UNCHANGED notSrv

\* PipelinedServerDispatcher::read: take the next id, call the service and
\* attach the continuation that captures the id.
PipelinedRead(req) ==
  /\ srvKind = "pipelined"
  /\ Len(srvArrived) < MaxRequests
  /\ srvArrived' = Append(srvArrived, req)
  /\ srvPending' = srvPending \cup
       {[seq |-> Len(srvArrived) + 1, requestId |-> requestId_, req |-> req]}
  /\ requestId_' = Inc32(requestId_)
  /\ UNCHANGED <<srvKind, lastWrittenId_, responses_, srvCompleted, srvFailed,
                 srvWrites, srvWriteExc, srvThrown>>
  /\ UNCHANGED notSrv

\* The continuation of PipelinedServerDispatcher::read, run when the service's
\* eventual completes with a value: store the response, then drain.
PipelinedComplete(c) ==
  /\ srvKind = "pipelined"
  /\ c \in srvPending
  /\ LET d == sendResponses(MapPut(responses_, c.requestId, ServiceResp(c.req)),
                            lastWrittenId_, srvWrites)
     IN /\ responses_' = d.responses
        /\ lastWrittenId_' = d.lastWritten
        /\ srvWrites' = d.writes
  /\ srvPending' = srvPending \ {c}
  /\ srvCompleted' = Append(srvCompleted, c.seq)
  /\ UNCHANGED <<srvKind, requestId_, srvArrived, srvFailed, srvWriteExc,
                 srvThrown>>
  /\ UNCHANGED notSrv

\* MultiplexServerDispatcher::read: call the service and attach the
\* continuation that captures the context.
MultiplexRead(req) ==
  /\ srvKind = "multiplex"
  /\ Len(srvArrived) < MaxRequests
  /\ srvArrived' = Append(srvArrived, req)
  /\ srvPending' = srvPending \cup
       {[seq |-> Len(srvArrived) + 1, requestId |-> 0, req |-> req]}
  /\ UNCHANGED <<srvKind, requestId_, lastWrittenId_, responses_, srvCompleted,
                 srvFailed, srvWrites, srvWriteExc, srvThrown>>
  /\ UNCHANGED notSrv

\* A mutant of the continuation: the response is put before the writes
\* already made.
MultiplexCompleteFirst(c) ==
  /\ srvKind = "multiplex"
  /\ c \in srvPending
  /\ srvWrites' = <<ServiceResp(c.req)>> \o srvWrites
  /\ srvPending' = srvPending \ {c}
  /\ srvCompleted' = Append(srvCompleted, c.seq)
  /\ UNCHANGED <<srvKind, requestId_, lastWrittenId_, responses_, srvArrived,
                 srvFailed, srvWriteExc, srvThrown>>
  /\ UNCHANGED notSrv

\* The continuation of MultiplexServerDispatcher::read: fire the response.
MultiplexComplete(c) ==
  /\ srvKind = "multiplex"
  /\ c \in srvPending
  /\ srvWrites' = Append(srvWrites, ServiceResp(c.req))
  /\ srvPending' = srvPending \ {c}
  /\ srvCompleted' = Append(srvCompleted, c.seq)
  /\ UNCHANGED <<srvKind, requestId_, lastWrittenId_, responses_, srvArrived,
                 srvFailed, srvWriteExc, srvThrown>>
  /\ UNCHANGED notSrv

\* A mutant of the failing eventual: the dispatcher steps over the failed
\* id and writes what is buffered behind it.
ServiceFailsSteppedOver(c) ==
  /\ srvKind \in {"pipelined", "multiplex"}
  /\ c \in srvPending
  /\ LET d == sendResponses(responses_,
                            IF c.requestId = Inc32(lastWrittenId_)
                              THEN c.requestId ELSE lastWrittenId_,
                            srvWrites)
     IN /\ responses_' = d.responses
        /\ lastWrittenId_' = d.lastWritten
        /\ srvWrites' = d.writes
  /\ srvPending' = srvPending \ {c}
  /\ srvCompleted' = Append(srvCompleted, c.seq)
  /\ srvFailed' = srvFailed \cup {c.seq}
  /\ UNCHANGED <<srvKind, requestId_, srvArrived, srvWriteExc, srvThrown>>
  /\ UNCHANGED notSrv

\* The service's eventual of a pipelined or multiplexed request fails: a
\* continuation that takes the value is skipped, and the eventual it returns
\* (which holds the failure) is dropped.
ServiceFails(c) ==
  /\ srvKind \in {"pipelined", "multiplex"}
  /\ c \in srvPending
  /\ srvPending' = srvPending \ {c}
  /\ srvCompleted' = Append(srvCompleted, c.seq)
  /\ srvFailed' = srvFailed \cup {c.seq}
  /\ UNCHANGED <<srvKind, requestId_, lastWrittenId_, responses_, srvArrived,
                 srvWrites, srvWriteExc, srvThrown>>
  /\ UNCHANGED notSrv

\* A pipelined dispatcher that has served IdMod - 2 requests: the next ids
\* it hands out are IdMod - 1 and then 0.  The records of arrivals and writes
\* start here.
WrapInit ==
  /\ srvKind = "pipelined"
  /\ requestId_ = IdMod - 1
  /\ lastWrittenId_ = IdMod - 2
  /\ responses_ = NoResponses
  /\ srvPending = {}
  /\ srvArrived = <<>>
  /\ srvCompleted = <<>>
  /\ srvFailed = {}
  /\ srvWrites = <<>>
  /\ srvWriteExc = 0
  /\ srvThrown = 0

WrapNext ==
  \/ \E req \in Reqs : PipelinedRead(req)
  \/ \E c \in srvPending : PipelinedComplete(c)

SrvNext ==
  \/ \E req \in Reqs : SerialRead(req)
  \/ \E req \in Reqs : SerialReadFail(req)
  \/ \E req \in Reqs : PipelinedRead(req)
  \/ \E c \in srvPending : PipelinedComplete(c)
  \/ \E req \in Reqs : MultiplexRead(req)
  \/ \E c \in srvPending : MultiplexComplete(c)
  \/ \E c \in srvPending : ServiceFails(c)

----------------------------------------------------------------------------
(* Client dispatchers *)

CliKinds == {"serial", "pipelined"}

Resps == 1..NumRespVals

CliInit ==
  /\ cliKind \in CliKinds
  /\ p_ = <<>>
  /\ cliFutures = <<>>
  /\ cliSets = <<>>
  /\ cliWrites = <<>>
  /\ cliReads = <<>>
  /\ cliState = "open"
  /\ cliFault = "none"
  /\ cliCloseFired = 0

CliIdle ==
  /\ cliKind = "serial"
  /\ p_ = <<>>
  /\ cliFutures = <<>>
  /\ cliSets = <<>>
  /\ cliWrites = <<>>
  /\ cliReads = <<>>
  /\ cliState = "open"
  /\ cliFault = "none"
  /\ cliCloseFired = 0

\* The dispatcher object exists and the process runs.
CliAlive == cliState \in {"open", "closed"}

\* Promise::setValue on the promise of the k-th call.
SetValue(futures, k, resp) == [futures EXCEPT ![k] = <<"value", resp>>]

\* A mutant of SerialClientDispatcher::operator(): no CHECK(!p_), the new
\* promise replaces the one in the slot.
SerialCallNoCheck(req) ==
  /\ cliKind = "serial"
  /\ CliAlive
  /\ Len(cliFutures) < MaxCalls
  /\ p_' = <<Len(cliFutures) + 1>>
  /\ cliFutures' = Append(cliFutures, "pending")
  /\ cliSets' = Append(cliSets, 0)
  /\ cliWrites' = Append(cliWrites, req)
  /\ UNCHANGED <<cliKind, cliReads, cliState, cliFault, cliCloseFired>>
  /\ UNCHANGED notCli

\* SerialClientDispatcher::operator() with the slot empty: a fresh promise
\* goes into the slot, the request is written, the eventual is returned.
SerialCall(req) ==
  /\ cliKind = "serial"
  /\ CliAlive
  /\ Len(cliFutures) < MaxCalls
  /\ p_ = <<>>
  /\ p_' = <<Len(cliFutures) + 1>>
  /\ cliFutures' = Append(cliFutures, "pending")
  /\ cliSets' = Append(cliSets, 0)
  /\ cliWrites' = Append(cliWrites, req)
  /\ UNCHANGED <<cliKind, cliReads, cliState, cliFault, cliCloseFired>>
  /\ UNCHANGED notCli

\* SerialClientDispatcher::operator() with the slot full: CHECK(!p_) fails
\* and ends the process before anything is written.
SerialCallBusy(req) ==
  /\ cliKind = "serial"
  /\ CliAlive
  /\ p_ # <<>>
  /\ cliState' = "failed"
  /\ cliFault' = "CHECK(!p_)"
  /\ UNCHANGED <<cliKind, p_, cliFutures, cliSets, cliWrites, cliReads,
                 cliCloseFired>>
  /\ UNCHANGED notCli

\* SerialClientDispatcher::read with the slot full: the promise is fulfilled
\* with the response and the slot is cleared.
SerialResp(resp) ==
  /\ cliKind = "serial"
  /\ CliAlive
  /\ p_ # <<>>
  /\ cliFutures' = SetValue(cliFutures, p_[1], resp)
  /\ cliSets' = [cliSets EXCEPT ![p_[1]] = @ + 1]
  /\ p_' = <<>>
  /\ cliReads' = Append(cliReads, resp)
  /\ UNCHANGED <<cliKind, cliWrites, cliState, cliFault, cliCloseFired>>
  /\ UNCHANGED notCli

\* SerialClientDispatcher::read with the slot empty: DCHECK(p_) fails in a
\* debug build; otherwise the access to the empty Optional fails.
SerialRespEmpty(resp) ==
  /\ cliKind = "serial"
  /\ CliAlive
  /\ p_ = <<>>
  /\ cliState' = "failed"
  /\ cliFault' \in {"DCHECK(p_)", "empty Optional"}
  /\ UNCHANGED <<cliKind, p_, cliFutures, cliSets, cliWrites, cliReads,
                 cliCloseFired>>
  /\ UNCHANGED notCli

\* PipelinedClientDispatcher::operator(): a fresh promise is pushed at the
\* back of the deque, the request is written, the eventual is returned.
PipelinedCall(req) ==
  /\ cliKind = "pipelined"
  /\ CliAlive
  /\ Len(cliFutures) < MaxCalls
  /\ p_' = Append(p_, Len(cliFutures) + 1)
  /\ cliFutures' = Append(cliFutures, "pending")
  /\ cliSets' = Append(cliSets, 0)
  /\ cliWrites' = Append(cliWrites, req)
  /\ UNCHANGED <<cliKind, cliReads, cliState, cliFault, cliCloseFired>>
  /\ UNCHANGED notCli

\* A mutant of PipelinedClientDispatcher::read: it takes the promise at the
\* back of the deque.
PipelinedRespBack(resp) ==
  /\ cliKind = "pipelined"
  /\ CliAlive
  /\ Len(p_) >= 1
  /\ cliFutures' = SetValue(cliFutures, p_[Len(p_)], resp)
  /\ cliSets' = [cliSets EXCEPT ![p_[Len(p_)]] = @ + 1]
  /\ p_' = SubSeq(p_, 1, Len(p_) - 1)
  /\ cliReads' = Append(cliReads, resp)
  /\ UNCHANGED <<cliKind, cliWrites, cliState, cliFault, cliCloseFired>>
  /\ UNCHANGED notCli

\* PipelinedClientDispatcher::read with a promise queued: the front promise
\* is popped and fulfilled with the response.
PipelinedResp(resp) ==
  /\ cliKind = "pipelined"
  /\ CliAlive
  /\ Len(p_) >= 1
  /\ cliFutures' = SetValue(cliFutures, Head(p_), resp)
  /\ cliSets' = [cliSets EXCEPT ![Head(p_)] = @ + 1]
  /\ p_' = Tail(p_)
  /\ cliReads' = Append(cliReads, resp)
  /\ UNCHANGED <<cliKind, cliWrites, cliState, cliFault, cliCloseFired>>
  /\ UNCHANGED notCli

\* PipelinedClientDispatcher::read with the deque empty: DCHECK fails in a
\* debug build; otherwise front() of an empty deque is undefined.
PipelinedRespEmpty(resp) ==
  /\ cliKind = "pipelined"
  /\ CliAlive
  /\ Len(p_) = 0
  /\ cliState' = "failed"
  /\ cliFault' \in {"DCHECK(p_.size() >= 1)", "undefined"}
  /\ UNCHANGED <<cliKind, p_, cliFutures, cliSets, cliWrites, cliReads,
                 cliCloseFired>>
  /\ UNCHANGED notCli

\* ClientDispatcherBase::close: the default close of the handler, which only
\* fires close on the context.  The promises held are not touched.
CliClose ==
  /\ CliAlive
  /\ cliCloseFired < MaxCloses
  /\ cliState' = "closed"
  /\ cliCloseFired' = cliCloseFired + 1
  /\ UNCHANGED <<cliKind, p_, cliFutures, cliSets, cliWrites, cliReads,
                 cliFault>>
  /\ UNCHANGED notCli

\* ~ClientDispatcherBase: the dispatcher leaves its pipeline; then its
\* members go, and a promise destroyed unfulfilled breaks its eventual.
CliDestroy ==
  /\ CliAlive
  /\ cliState' = "destroyed"
  /\ cliFutures' = [k \in DOMAIN cliFutures |->
                      IF k \in Range(p_) THEN "broken" ELSE cliFutures[k]]
  /\ cliSets' = [k \in DOMAIN cliSets |->
                   IF k \in Range(p_) THEN cliSets[k] + 1 ELSE cliSets[k]]
  /\ p_' = <<>>
  /\ UNCHANGED <<cliKind, cliWrites, cliReads, cliFault, cliCloseFired>>
  /\ UNCHANGED notCli

CliNext ==
  \/ \E req \in Reqs : SerialCall(req)
  \/ \E req \in Reqs : SerialCallBusy(req)
  \/ \E resp \in Resps : SerialResp(resp)
  \/ \E resp \in Resps : SerialRespEmpty(resp)
  \/ \E req \in Reqs : PipelinedCall(req)
  \/ \E resp \in Resps : PipelinedResp(resp)
  \/ \E resp \in Resps : PipelinedRespEmpty(resp)
  \/ CliClose
  \/ CliDestroy

----------------------------------------------------------------------------
(* Pipeline: construction and finalize *)

Null == 0

\* The message types that occur; "U" is folly::Unit.
\* Handler classes: direction and the four types rin, rout, win, wout.
HandlerClass ==
  [ sock  |-> [dir |-> "BOTH", rin |-> "A", rout |-> "A", win |-> "A", wout |-> "A"],
    dec   |-> [dir |-> "IN",   rin |-> "A", rout |-> "B", win |-> "U", wout |-> "U"],
    enc   |-> [dir |-> "OUT",  rin |-> "U", rout |-> "U", win |-> "B", wout |-> "A"],
    codec |-> [dir |-> "BOTH", rin |-> "A", rout |-> "B", win |-> "B", wout |-> "A"],
    app   |-> [dir |-> "BOTH", rin |-> "B", rout |-> "B", win |-> "B", wout |-> "B"] ]

Classes == DOMAIN HandlerClass

InCapable(cls) == HandlerClass[cls].dir \in {"BOTH", "IN"}
OutCapable(cls) == HandlerClass[cls].dir \in {"BOTH", "OUT"}

\* A context as its constructor leaves it; its handler is a fresh object of
\* class cls, which no other context holds.
NewContext(cls) ==
  [cls |-> cls, nextIn_ |-> Null, nextOut_ |-> Null, attached_ |-> FALSE,
   attachCount_ |-> 0, ctx_ |-> Null]

NoContexts == [c \in {} |-> NewContext("sock")]

InsertAt(seq, front, x) == IF front THEN <<x>> \o seq ELSE Append(seq, x)

PlInit ==
  /\ plR \in {"A", "B"}
  /\ plW \in {"A", "B", "U"}
  /\ isStatic_ = FALSE
  /\ ctxTab = NoContexts
  /\ ctxs_ = <<>>
  /\ inCtxs_ = <<>>
  /\ outCtxs_ = <<>>
  /\ front_ = Null
  /\ back_ = Null
  /\ owner_ = Null
  /\ plNominated = Null
  /\ plStatus = "building"
  /\ plOwners = 1
  /\ plCalls = <<>>
  /\ plDestroyed = FALSE
  /\ detachLog = <<>>

PlIdle ==
  /\ plR = "A"
  /\ plW = "A"
  /\ isStatic_ = FALSE
  /\ ctxTab = NoContexts
  /\ ctxs_ = <<>>
  /\ inCtxs_ = <<>>
  /\ outCtxs_ = <<>>
  /\ front_ = Null
  /\ back_ = Null
  /\ owner_ = Null
  /\ plNominated = Null
  /\ plStatus = "building"
  /\ plOwners = 1
  /\ plCalls = <<>>
  /\ plDestroyed = FALSE
  /\ detachLog = <<>>

\* A mutant of addHelper: the context always goes to the end of the IN and
\* OUT sublists, also when it goes to the front of the all-list.
addHelperSublistsBack(pl, cls, front) ==
  LET c == Len(pl.ctxs_) + 1 IN
  [pl EXCEPT
     !.ctxTab = [x \in (DOMAIN pl.ctxTab) \cup {c} |->
                   IF x = c THEN NewContext(cls) ELSE pl.ctxTab[x]],
     !.ctxs_ = InsertAt(pl.ctxs_, front, c),
     !.inCtxs_ = IF InCapable(cls) THEN Append(pl.inCtxs_, c) ELSE pl.inCtxs_,
     !.outCtxs_ = IF OutCapable(cls) THEN Append(pl.outCtxs_, c) ELSE pl.outCtxs_]

\* PipelineBase::addHelper on the record pl of the pipeline's containers:
\* the new context goes into ctxs_, and by its direction into inCtxs_ and
\* outCtxs_, at the front or at the end of each.
addHelper(pl, cls, front) ==
  LET c == Len(pl.ctxs_) + 1 IN
  [pl EXCEPT
     !.ctxTab = [x \in (DOMAIN pl.ctxTab) \cup {c} |->
                   IF x = c THEN NewContext(cls) ELSE pl.ctxTab[x]],
     !.ctxs_ = InsertAt(pl.ctxs_, front, c),
     !.inCtxs_ = IF InCapable(cls) THEN InsertAt(pl.inCtxs_, front, c)
                                   ELSE pl.inCtxs_,
     !.outCtxs_ = IF OutCapable(cls) THEN InsertAt(pl.outCtxs_, front, c)
                                     ELSE pl.outCtxs_]

\* dynamic_cast<InboundLink<T>*>(ctx): the context is an InboundLink<rin>.
IsInboundLink(tab, c, type) ==
  InCapable(tab[c].cls) /\ HandlerClass[tab[c].cls].rin = type

\* dynamic_cast<OutboundLink<T>*>(ctx): the context is an OutboundLink<win>.
IsOutboundLink(tab, c, type) ==
  OutCapable(tab[c].cls) /\ HandlerClass[tab[c].cls].win = type

\* ContextImplBase::setNextIn(ctx) for a non-null ctx succeeds iff ctx is an
\* InboundLink of this handler's rout.
NextInMatches(tab, c, next) ==
  IsInboundLink(tab, next, HandlerClass[tab[c].cls].rout)

\* A mutant of setNextOut: any outbound context is accepted as the next one.
NextOutMatchesAny(tab, c, next) == OutCapable(tab[next].cls)

\* ContextImplBase::setNextOut(ctx) for a non-null ctx succeeds iff ctx is an
\* OutboundLink of this handler's wout.
NextOutMatches(tab, c, next) ==
  IsOutboundLink(tab, next, HandlerClass[tab[c].cls].wout)

\* The loop of finalize over inCtxs_, from index i (1-based): setNextIn of
\* each context to the next one, then of the last one to null; a mismatch
\* throws and leaves the links made so far.
RECURSIVE LinkIn(_, _, _)
LinkIn(tab, ins, i) ==
  IF i >= Len(ins)
    THEN [tab |-> [tab EXCEPT ![ins[Len(ins)]].nextIn_ = Null], ok |-> TRUE]
    ELSE IF NextInMatches(tab, ins[i], ins[i + 1])
      THEN LinkIn([tab EXCEPT ![ins[i]].nextIn_ = ins[i + 1]], ins, i + 1)
      ELSE [tab |-> tab, ok |-> FALSE]

\* The loop of finalize over outCtxs_, from index i (1-based) down:
\* setNextOut of each context to the one before it, then of the first one to
\* null; a mismatch throws and leaves the links made so far.
RECURSIVE LinkOut(_, _, _)
LinkOut(tab, outs, i) ==
  IF i <= 1
    THEN [tab |-> [tab EXCEPT ![outs[1]].nextOut_ = Null], ok |-> TRUE]
    ELSE IF NextOutMatches(tab, outs[i], outs[i - 1])
      THEN LinkOut([tab EXCEPT ![outs[i]].nextOut_ = outs[i - 1]], outs, i - 1)
      ELSE [tab |-> tab, ok |-> FALSE]

\* PipelineContext::attachContext on the handler of context c.
attachContext(tab, c) ==
  [tab EXCEPT ![c].attachCount_ = @ + 1,
              ![c].ctx_ = IF tab[c].attachCount_ + 1 = 1 THEN c ELSE Null]

\* ContextImplBase::attachPipeline on context c.
attachPipeline(tab, c) ==
  IF ~tab[c].attached_
    THEN [attachContext(tab, c) EXCEPT ![c].attached_ = TRUE]
    ELSE tab

\* The last loop of finalize: attachPipeline on every context of ctxs_, from
\* the last one (index i) to the first.
RECURSIVE AttachAll(_, _, _)
AttachAll(tab, all, i) ==
  IF i < 1 THEN tab ELSE AttachAll(attachPipeline(tab, all[i]), all, i - 1)

\* Pipeline<R, W>::finalize on the record pl: front_ and the IN chain, then
\* back_ and the OUT chain, then the attaching; an exception of setNextIn or
\* setNextOut ends it where it is thrown.
finalize(pl, R, W) ==
  LET frontNew == IF pl.inCtxs_ # <<>> /\ IsInboundLink(pl.ctxTab, pl.inCtxs_[1], R)
                    THEN pl.inCtxs_[1] ELSE Null
      li == IF pl.inCtxs_ # <<>> THEN LinkIn(pl.ctxTab, pl.inCtxs_, 1)
                                 ELSE [tab |-> pl.ctxTab, ok |-> TRUE]
      backNew == IF pl.outCtxs_ # <<>> /\
                      IsOutboundLink(li.tab, pl.outCtxs_[Len(pl.outCtxs_)], W)
                   THEN pl.outCtxs_[Len(pl.outCtxs_)] ELSE Null
      lo == IF pl.outCtxs_ # <<>> THEN LinkOut(li.tab, pl.outCtxs_, Len(pl.outCtxs_))
                                  ELSE [tab |-> li.tab, ok |-> TRUE]
  IN IF ~li.ok
       THEN [pl EXCEPT !.front_ = frontNew, !.ctxTab = li.tab,
                       !.plStatus = "failed"]
       ELSE IF ~lo.ok
         THEN [pl EXCEPT !.front_ = frontNew, !.back_ = backNew,
                         !.ctxTab = lo.tab, !.plStatus = "failed"]
         ELSE [pl EXCEPT !.front_ = frontNew, !.back_ = backNew,
                         !.ctxTab = AttachAll(lo.tab, pl.ctxs_, Len(pl.ctxs_)),
                         !.plStatus = "finalized"]

\* The pipeline's containers and links as one record.
PlRecord ==
  [ctxTab |-> ctxTab, ctxs_ |-> ctxs_, inCtxs_ |-> inCtxs_,
   outCtxs_ |-> outCtxs_, front_ |-> front_, back_ |-> back_,
   plStatus |-> plStatus]

PlAssign(pl) ==
  /\ ctxTab' = pl.ctxTab
  /\ ctxs_' = pl.ctxs_
  /\ inCtxs_' = pl.inCtxs_
  /\ outCtxs_' = pl.outCtxs_
  /\ front_' = pl.front_
  /\ back_' = pl.back_
  /\ plStatus' = pl.plStatus

\* PipelineBase::addFront(handler) with a handler of class cls.
AddFront(cls) ==
  /\ ~plDestroyed
  /\ Len(ctxs_) < MaxCtxs
  /\ PlAssign([addHelper(PlRecord, cls, TRUE) EXCEPT !.plStatus = "building"])
  /\ UNCHANGED <<plR, plW, isStatic_, owner_, plNominated, plOwners, plCalls,
                 plDestroyed, detachLog>>
  /\ UNCHANGED notPl

\* PipelineBase::addBack(handler) with a handler of class cls.
AddBack(cls) ==
  /\ ~plDestroyed
  /\ Len(ctxs_) < MaxCtxs
  /\ PlAssign([addHelper(PlRecord, cls, FALSE) EXCEPT !.plStatus = "building"])
  /\ UNCHANGED <<plR, plW, isStatic_, owner_, plNominated, plOwners, plCalls,
                 plDestroyed, detachLog>>
  /\ UNCHANGED notPl

\* Pipeline::finalize().
Finalize ==
  /\ ~plDestroyed
  /\ PlAssign(finalize(PlRecord, plR, plW))
  /\ UNCHANGED <<plR, plW, isStatic_, owner_, plNominated, plOwners, plCalls,
                 plDestroyed, detachLog>>
  /\ UNCHANGED notPl

PlNext ==
  \/ \E cls \in Classes : AddFront(cls)
  \/ \E cls \in Classes : AddBack(cls)
  \/ Finalize

----------------------------------------------------------------------------
(* Pipeline: ownership, calls in progress, destruction *)

\* The fire operations of a context and the link operations it overrides.
InOps == {"fireRead", "fireReadEOF", "fireReadException",
          "fireTransportActive", "fireTransportInactive",
          "read", "readEOF", "readException",
          "transportActive", "transportInactive"}
OutOps == {"fireWrite", "fireWriteException", "fireClose",
           "write", "writeException", "close"}

OpsOf(cls) ==
  (IF InCapable(cls) THEN InOps ELSE {}) \cup
  (IF OutCapable(cls) THEN OutOps ELSE {})

\* A mutant: fireRead takes no guard.
TakesGuardButFireRead(op) == op # "fireRead"

\* Whether operation op starts with  auto guard = pipelineWeak_.lock() : each
\* of them does.
TakesGuard(op) == op \in InOps \cup OutOps

\* The strong references to the pipeline: its users' and the guards of the
\* calls in progress.
StrongCount(owners, calls) ==
  owners + Cardinality({i \in DOMAIN calls : calls[i].guard})

\* PipelineBase::setOwner(handler): owner_ becomes the first context of
\* ctxs_ whose handler is the given one (a context's handler is named by the
\* context that holds it); owner_ stays as it is when there is none.
setOwner(all, h, old) ==
  LET found == {i \in DOMAIN all : all[i] = h}
  IN IF found = {} THEN old
     ELSE all[CHOOSE i \in found : \A j \in found : i <= j]

\* PipelineContext::detachContext on the handler of context c.
detachContext(tab, c) ==
  [tab EXCEPT ![c].attachCount_ = IF @ >= 1 THEN @ - 1 ELSE @,
              ![c].ctx_ = Null]

\* ContextImplBase::detachPipeline on context c.
detachPipeline(tab, c) == detachContext([tab EXCEPT ![c].attached_ = FALSE], c)

\* PipelineBase::detachHandlers: the contexts it detaches, in order: every
\* context of ctxs_ but owner_, the last one of ctxs_ first.
detachHandlers(all, owner) ==
  LET kept == SelectSeq(all, LAMBDA c : c # owner)
  IN [i \in 1..Len(kept) |-> kept[Len(kept) + 1 - i]]

RECURSIVE DetachAll(_, _, _)
DetachAll(tab, order, i) ==
  IF i > Len(order) THEN tab
  ELSE DetachAll(detachPipeline(tab, order[i]), order, i + 1)

\* A mutant of ~Pipeline: the test of isStatic_ is inverted.
PipelineDtorInverted(static, all, owner) ==
  IF static THEN detachHandlers(all, owner) ELSE <<>>

\* Pipeline::~Pipeline: the contexts detached, in order.
PipelineDtor(static, all, owner) ==
  IF ~static THEN detachHandlers(all, owner) ELSE <<>>

\* The last strong reference goes: the pipeline is destroyed.
Destroy ==
  LET order == PipelineDtor(isStatic_, ctxs_, owner_)
  IN /\ plDestroyed' = TRUE
     /\ detachLog' = detachLog \o order
     /\ ctxTab' = DetachAll(ctxTab, order, 1)

ReleaseOrDestroy(owners, calls) ==
  IF StrongCount(owners, calls) = 0 /\ ~plDestroyed
    THEN Destroy
    ELSE UNCHANGED <<plDestroyed, detachLog, ctxTab>>

\* pipeline->setOwner(handler) with the handler of context c.
SetOwner(c) ==
  /\ ~plDestroyed
  /\ c \in DOMAIN ctxTab
  /\ owner_' = setOwner(ctxs_, c, owner_)
  /\ plNominated' = c
  /\ UNCHANGED <<plR, plW, isStatic_, ctxTab, ctxs_, inCtxs_, outCtxs_,
                 front_, back_, plStatus, plOwners, plCalls, plDestroyed,
                 detachLog>>
  /\ UNCHANGED notPl

\* A user copies its shared_ptr<Pipeline>.
TakeRef ==
  /\ ~plDestroyed
  /\ plOwners >= 1
  /\ plOwners < MaxOwners
  /\ plOwners' = plOwners + 1
  /\ UNCHANGED <<plR, plW, isStatic_, ctxTab, ctxs_, inCtxs_, outCtxs_,
                 front_, back_, owner_, plNominated, plStatus, plCalls,
                 plDestroyed, detachLog>>
  /\ UNCHANGED notPl

\* A user drops its shared_ptr<Pipeline>.
DropRef ==
  /\ plOwners >= 1
  /\ plOwners' = plOwners - 1
  /\ ReleaseOrDestroy(plOwners - 1, plCalls)
  /\ UNCHANGED <<plR, plW, isStatic_, ctxs_, inCtxs_, outCtxs_, front_, back_,
                 owner_, plNominated, plStatus, plCalls>>
  /\ UNCHANGED notPl

\* Operation op of context c begins: it locks pipelineWeak_ into its guard.
\* The caller is a user that holds the pipeline, or a call in progress.
BeginCall(c, op) ==
  /\ ~plDestroyed
  /\ plOwners >= 1 \/ plCalls # <<>>
  /\ Len(plCalls) < MaxCallDepth
  /\ c \in DOMAIN ctxTab
  /\ op \in OpsOf(ctxTab[c].cls)
  /\ plCalls' = Append(plCalls, [guard |-> TakesGuard(op)])
  /\ UNCHANGED <<plR, plW, isStatic_, ctxTab, ctxs_, inCtxs_, outCtxs_,
                 front_, back_, owner_, plNominated, plStatus, plOwners,
                 plDestroyed, detachLog>>
  /\ UNCHANGED notPl

\* The innermost call in progress returns: its guard is released.
EndCall ==
  /\ plCalls # <<>>
  /\ plCalls' = SubSeq(plCalls, 1, Len(plCalls) - 1)
  /\ ReleaseOrDestroy(plOwners, SubSeq(plCalls, 1, Len(plCalls) - 1))
  /\ UNCHANGED <<plR, plW, isStatic_, ctxs_, inCtxs_, outCtxs_, front_, back_,
                 owner_, plNominated, plStatus, plOwners>>
  /\ UNCHANGED notPl

LifeNext ==
  \/ \E c \in 1..MaxCtxs : SetOwner(c)
  \/ TakeRef
  \/ DropRef
  \/ \E c \in 1..MaxCtxs, op \in InOps \cup OutOps : BeginCall(c, op)
  \/ EndCall

\* The pipelines the lifetime specification starts from: built by a sequence
\* of addFront/addBack calls and finalized.
LifeClasses == {"sock", "dec", "enc"}

EmptyPl ==
  [ctxTab |-> NoContexts, ctxs_ |-> <<>>, inCtxs_ |-> <<>>, outCtxs_ |-> <<>>,
   front_ |-> Null, back_ |-> Null, plStatus |-> "building"]

RECURSIVE Build(_, _)
Build(adds, i) ==
  IF i = 0 THEN EmptyPl
  ELSE addHelper(Build(adds, i - 1), adds[i][1], adds[i][2])

AddSeqs == UNION {[1..n -> LifeClasses \X BOOLEAN] : n \in 0..MaxCtxs}

LifeInit ==
  /\ plR = "A"
  /\ plW = "A"
  /\ isStatic_ \in BOOLEAN
  /\ \E adds \in AddSeqs :
       LET pl == finalize(Build(adds, Len(adds)), "A", "A")
       IN /\ ctxTab = pl.ctxTab
          /\ ctxs_ = pl.ctxs_
          /\ inCtxs_ = pl.inCtxs_
          /\ outCtxs_ = pl.outCtxs_
          /\ front_ = pl.front_
          /\ back_ = pl.back_
          /\ plStatus = pl.plStatus
  /\ owner_ = Null
  /\ plNominated = Null
  /\ plOwners = 1
  /\ plCalls = <<>>
  /\ plDestroyed = FALSE
  /\ detachLog = <<>>

----------------------------------------------------------------------------
(* LengthFieldBasedFrameDecoder (codec/LengthFieldBasedFrameDecoder.cpp) *)

\* Machine words are modelled at a reduced scale that keeps their ratios: a
\* byte has ByteBits bits, uint32_t and int have four bytes, uint64_t and
\* size_t have eight.
ByteBits == 2
ByteMod == 2 ^ ByteBits
U32Mod == ByteMod ^ 4
U64Mod == ByteMod ^ 8
IntMax == (U32Mod \div 2) - 1
U32Max == U32Mod - 1

\* the conversion of an unsigned value to int
ToInt(x) == LET y == x % U32Mod IN IF y > IntMax THEN y - U32Mod ELSE y
\* the conversion of an int to size_t
ToSize(i) == i % U64Mod

\* the field widths getUnadjustedFrameLength has a case for
FieldLengths == {1, 2, 4, 8}

NoFrame == [got |-> FALSE, frame |-> <<>>]

\* A mutant of trimStart: it removes nothing.
trimStartNothing(q, n) == [q |-> q, thrown |-> "none"]

\* IOBufQueue::trimStart(n): removes n bytes; with fewer than n bytes queued
\* it removes them all and throws std::underflow_error.
trimStart(q, n) ==
  IF n <= Len(q)
    THEN [q |-> SubSeq(q, n + 1, Len(q)), thrown |-> "none"]
    ELSE [q |-> <<>>, thrown |-> "underflow_error"]

\* IOBufQueue::split(n): removes and returns the first n bytes; with fewer
\* than n bytes queued it throws std::underflow_error.  split(0) returns no
\* buffer or an empty one, as the library build has it (emptyIsNull).
split(q, n, emptyIsNull) ==
  IF n > Len(q)
    THEN [q |-> <<>>, got |-> FALSE, frame |-> <<>>, thrown |-> "underflow_error"]
    ELSE [q |-> SubSeq(q, n + 1, Len(q)),
          got |-> ~(n = 0 /\ emptyIsNull),
          frame |-> SubSeq(q, 1, n),
          thrown |-> "none"]

RECURSIVE readBE(_, _, _)
\* Cursor::readBE<T> of length bytes starting after the first pos bytes
readBE(q, pos, length) ==
  IF length = 0 THEN 0
  ELSE readBE(q, pos, length - 1) * ByteMod + q[pos + length]

RECURSIVE readLE(_, _, _)
\* Cursor::readLE<T> of length bytes starting after the first pos bytes
readLE(q, pos, length) ==
  IF length = 0 THEN 0
  ELSE q[pos + 1] + ByteMod * readLE(q, pos + 1, length - 1)

\* LengthFieldBasedFrameDecoder::getUnadjustedFrameLength(buf, int offset,
\* int length, bool networkByteOrder): the value read, or the exception the
\* cursor throws when it runs off the buffer.
getUnadjustedFrameLength(q, offset, length, networkByteOrder) ==
  LET skip == ToSize(offset)
  IN IF skip > Len(q) \/ skip + length > Len(q)
       THEN [thrown |-> "out_of_range", value |-> 0]
       ELSE [thrown |-> "none",
             value |->
               CASE length = 1 ->
                      IF networkByteOrder THEN readBE(q, skip, 1) ELSE readLE(q, skip, 1)
                 [] length = 2 ->
                      IF networkByteOrder THEN readBE(q, skip, 2) ELSE readLE(q, skip, 2)
                 [] length = 4 ->
                      IF networkByteOrder THEN readBE(q, skip, 4) ELSE readLE(q, skip, 4)
                 [] length = 8 ->
                      IF networkByteOrder THEN readBE(q, skip, 8) ELSE readLE(q, skip, 8)]

\* The constructor's initializer of lengthFieldEndOffset_ (uint32_t sum).
EndOffset(lengthFieldOffset, lengthFieldLength) ==
  (lengthFieldOffset + lengthFieldLength) % U32Mod

\* The constructor's two CHECKs, in uint32_t arithmetic.
CtorChecks(lengthFieldLength, maxFrameLength, lengthFieldOffset) ==
  /\ maxFrameLength > 0
  /\ lengthFieldOffset <= (maxFrameLength - lengthFieldLength) % U32Mod

\* A mutant of the nullptr return: the queue is emptied on the way out.
DecNoneDrops(q, exc, thrown) ==
  [q |-> <<>>, got |-> FALSE, frame |-> <<>>, exc |-> exc, thrown |-> thrown]

\* The result of a decode call that returns nullptr.
DecNone(q, exc, thrown) ==
  [q |-> q, got |-> FALSE, frame |-> <<>>, exc |-> exc, thrown |-> thrown]

\* decode, its last three statements: trim the bytes to strip, convert the
\* length to int, split the frame off.
decodeTail(q, frameLength, emptyIsNull) ==
  LET t == trimStart(q, initialBytesToStrip_)
      actualFrameLength == ToInt((frameLength - initialBytesToStrip_) % U64Mod)
      s == split(t.q, ToSize(actualFrameLength), emptyIsNull)
  IN IF t.thrown # "none" THEN DecNone(t.q, <<>>, t.thrown)
     ELSE [q |-> s.q, got |-> s.got, frame |-> s.frame, exc |-> <<>>,
           thrown |-> s.thrown]

\* A mutant of decode: initialBytesToStrip_ is not compared with the frame
\* length.
decodeStripsAnyway(q, emptyIsNull) ==
  IF Len(q) < lengthFieldEndOffset_ THEN DecNone(q, <<>>, "none")
  ELSE
    LET u == getUnadjustedFrameLength(q, ToInt(lengthFieldOffset_),
                                      ToInt(lengthFieldLength_), networkByteOrder_)
        frameLength ==
          (u.value + ((lengthAdjustment_ + lengthFieldEndOffset_) % U32Mod)) % U64Mod
    IN IF u.thrown # "none" THEN DecNone(q, <<>>, u.thrown)
       ELSE IF frameLength < lengthFieldEndOffset_ THEN
         LET t == trimStart(q, lengthFieldEndOffset_)
         IN IF t.thrown # "none" THEN DecNone(t.q, <<>>, t.thrown)
            ELSE DecNone(t.q, <<"Frame too small">>, "none")
       ELSE IF frameLength > maxFrameLength_ THEN
         LET t == trimStart(q, frameLength)
         IN IF t.thrown # "none" THEN DecNone(t.q, <<>>, t.thrown)
            ELSE DecNone(t.q, <<"Frame larger than maxFrameLength">>, "none")
       ELSE IF Len(q) < frameLength THEN DecNone(q, <<>>, "none")
       ELSE decodeTail(q, frameLength, emptyIsNull)

\* LengthFieldBasedFrameDecoder::decode on the queue q: the queue left, the
\* frame returned (got is FALSE for nullptr), the read-exceptions fired and
\* the exception thrown, if any.
decode(q, emptyIsNull) ==
  IF Len(q) < lengthFieldEndOffset_ THEN DecNone(q, <<>>, "none")
  ELSE
    LET u == getUnadjustedFrameLength(q, ToInt(lengthFieldOffset_),
                                      ToInt(lengthFieldLength_), networkByteOrder_)
        frameLength ==
          (u.value + ((lengthAdjustment_ + lengthFieldEndOffset_) % U32Mod)) % U64Mod
    IN IF u.thrown # "none" THEN DecNone(q, <<>>, u.thrown)
       ELSE IF frameLength < lengthFieldEndOffset_ THEN
         LET t == trimStart(q, lengthFieldEndOffset_)
         IN IF t.thrown # "none" THEN DecNone(t.q, <<>>, t.thrown)
            ELSE DecNone(t.q, <<"Frame too small">>, "none")
       ELSE IF frameLength > maxFrameLength_ THEN
         LET t == trimStart(q, frameLength)
         IN IF t.thrown # "none" THEN DecNone(t.q, <<>>, t.thrown)
            ELSE DecNone(t.q, <<"Frame larger than maxFrameLength">>, "none")
       ELSE IF Len(q) < frameLength THEN DecNone(q, <<>>, "none")
       ELSE IF initialBytesToStrip_ > frameLength THEN
         LET t == trimStart(q, frameLength)
         IN IF t.thrown # "none" THEN DecNone(t.q, <<>>, t.thrown)
            ELSE DecNone(t.q, <<"InitialBytesToSkip larger than frame">>, "none")
       ELSE decodeTail(q, frameLength, emptyIsNull)

RECURSIVE ReadLoop(_, _, _, _, _)
\* The caller of decode: it calls decode again for as long as a frame comes
\* back and fires each frame; an exception thrown by decode ends it.  It is
\* given up as not terminating after fuel frames.
ReadLoop(q, frames, exc, emptyIsNull, fuel) ==
  LET r == decode(q, emptyIsNull)
  IN IF r.thrown # "none"
       THEN [q |-> r.q, frames |-> frames, exc |-> exc \o r.exc, thrown |-> r.thrown]
     ELSE IF ~r.got
       THEN [q |-> r.q, frames |-> frames, exc |-> exc \o r.exc, thrown |-> "none"]
     ELSE IF fuel = 0
       THEN [q |-> r.q, frames |-> frames, exc |-> exc, thrown |-> "no return"]
     ELSE ReadLoop(r.q, Append(frames, r.frame), exc \o r.exc, emptyIsNull, fuel - 1)

\* The peer's encoding of value v in a field of length bytes.
EncodeField(v, length, networkByteOrder) ==
  [i \in 1..length |->
     IF networkByteOrder
       THEN (v \div (ByteMod ^ (length - i))) % ByteMod
       ELSE (v \div (ByteMod ^ (i - 1))) % ByteMod]

\* The bytes the peer sends around the length field: the byte at position i
\* of the wire.
WireByte(i) == i % ByteMod

\* The wire: offset bytes, the length field holding v, and tail bytes more.
Wire(offset, length, networkByteOrder, v, tail) ==
  LET field == EncodeField(v, length, networkByteOrder)
  IN [i \in 1..(offset + length + tail) |->
        IF i > offset /\ i <= offset + length THEN field[i - offset]
        ELSE WireByte(i)]

\* the values the peer writes in a field of length bytes
LenVals(length) ==
  {v \in 0..MaxLenVal : v < ByteMod ^ length} \cup {(ByteMod ^ length) - 1}

DecFresh ==
  /\ decPos = 0
  /\ decQueue = <<>>
  /\ decFrames = <<>>
  /\ decExc = <<>>
  /\ decThrown = "none"

\* A decoder just constructed from small parameters the constructor accepts,
\* and a peer about to send one length field and up to MaxTail bytes more.
DecInitSmall ==
  /\ lengthFieldLength_ \in FieldLengths
  /\ maxFrameLength_ \in {lengthFieldLength_, MaxFrameLen, U32Max}
  /\ lengthFieldOffset_ \in 0..MaxOffset
  /\ lengthAdjustment_ \in 0..MaxAdjust
  /\ initialBytesToStrip_ \in 0..MaxStrip
  /\ networkByteOrder_ \in BOOLEAN
  /\ CtorChecks(lengthFieldLength_, maxFrameLength_, lengthFieldOffset_)
  /\ lengthFieldEndOffset_ = EndOffset(lengthFieldOffset_, lengthFieldLength_)
  /\ decLenVal \in LenVals(lengthFieldLength_)
  /\ \E tail \in 0..MaxTail :
       decWire = Wire(lengthFieldOffset_, lengthFieldLength_, networkByteOrder_,
                      decLenVal, tail)
  /\ DecFresh

\* A decoder that accepts every frame length, and a peer about to send a
\* frame of INT_MAX + 1 bytes, header included.
DecInitLarge ==
  /\ lengthFieldLength_ \in {4, 8}
  /\ maxFrameLength_ = U32Max
  /\ lengthFieldOffset_ = 0
  /\ lengthAdjustment_ = 0
  /\ initialBytesToStrip_ = 0
  /\ networkByteOrder_ \in BOOLEAN
  /\ CtorChecks(lengthFieldLength_, maxFrameLength_, lengthFieldOffset_)
  /\ lengthFieldEndOffset_ = EndOffset(lengthFieldOffset_, lengthFieldLength_)
  /\ decLenVal = IntMax + 1 - lengthFieldLength_
  /\ decWire = Wire(lengthFieldOffset_, lengthFieldLength_, networkByteOrder_,
                    decLenVal, decLenVal)
  /\ DecFresh

DecInit == DecInitSmall \/ DecInitLarge

DecIdle ==
  /\ lengthFieldLength_ = 1
  /\ maxFrameLength_ = 1
  /\ lengthFieldOffset_ = 0
  /\ lengthAdjustment_ = 0
  /\ initialBytesToStrip_ = 0
  /\ networkByteOrder_ = TRUE
  /\ lengthFieldEndOffset_ = 1
  /\ decWire = <<>>
  /\ decLenVal = 0
  /\ DecFresh

\* The next n bytes arrive: they are appended to the queue and the decoder
\* is run on it.
DecRead(n) ==
  /\ decThrown = "none"
  /\ n >= 1
  /\ decPos + n <= Len(decWire)
  /\ \E emptyIsNull \in BOOLEAN :
       LET q == decQueue \o SubSeq(decWire, decPos + 1, decPos + n)
           r == ReadLoop(q, decFrames, decExc, emptyIsNull, Len(q) + 1)
       IN /\ decQueue' = r.q
          /\ decFrames' = r.frames
          /\ decExc' = r.exc
          /\ decThrown' = r.thrown
  /\ decPos' = decPos + n
  /\ UNCHANGED <<decCfg, decWire, decLenVal>>
  /\ UNCHANGED notDec

DecNext == \E n \in DOMAIN decWire : DecRead(n)

----------------------------------------------------------------------------
(* AsyncSocketHandler (channel/AsyncSocketHandler.h) *)

\* The handler's state as one record, for the operators below.
SockSelf ==
  [socket_ |-> socket_, readCB |-> sockReadCB, firedInactive_ |-> firedInactive_,
   pipelineDeleted_ |-> pipelineDeleted_, log |-> sockLog,
   deletes |-> mgrDeletes, inactives |-> sockInactives]

\* what a later handler does when transportInactive reaches it: nothing, or a
\* close or writeException that travels back to the socket handler
Reactions == {"none", "close", "writeException"}

\* A mutant of PipelineBase::deletePipeline: the manager is told again though
\* the pipeline was deleted already.
shutdownDeleteAgain(h, manager) ==
  [h EXCEPT !.pipelineDeleted_ = TRUE,
            !.deletes = IF manager THEN @ + 1 ELSE @]

\* AsyncSocketHandler::shutdown, its second statement:
\* if (!pipelineDeleted_) { pipelineDeleted_ = true; deletePipeline(); }
\* with PipelineBase::deletePipeline, which tells the manager if there is one.
shutdownDelete(h, manager) ==
  IF ~h.pipelineDeleted_
    THEN [h EXCEPT !.pipelineDeleted_ = TRUE,
                   !.deletes = IF manager THEN @ + 1 ELSE @]
    ELSE h

\* A mutant of detachReadCallback: the read callback stays on the transport.
detachReadCallbackKeeps(h, attached) ==
  IF attached /\ ~h.firedInactive_
    THEN [h |-> [h EXCEPT !.firedInactive_ = TRUE, !.inactives = @ + 1],
          fired |-> TRUE]
    ELSE [h |-> h, fired |-> FALSE]

\* AsyncSocketHandler::detachReadCallback without the calls it may cause:
\* the read callback is taken off the transport; fired tells whether
\* fireTransportInactive is called.
detachReadCallback(h, attached) ==
  LET h1 == IF h.socket_ # "null" /\ h.readCB THEN [h EXCEPT !.readCB = FALSE] ELSE h
  IN IF attached /\ ~h1.firedInactive_
       THEN [h |-> [h1 EXCEPT !.firedInactive_ = TRUE, !.inactives = @ + 1],
             fired |-> TRUE]
       ELSE [h |-> h1, fired |-> FALSE]

\* AsyncSocketHandler::shutdown(ctx, closeWithReset) when no later handler
\* calls back into the socket handler.
shutdownInner(h, manager) ==
  LET d == IF h.socket_ # "null"
             THEN [detachReadCallback(h, TRUE).h EXCEPT !.socket_ = "closed"]
             ELSE h
  IN shutdownDelete(d, manager)

\* AsyncSocketHandler::close(ctx) and writeException(ctx, e) called by a
\* later handler from within transportInactive.
Reenter(h, reaction, manager, wso) ==
  IF reaction = "none" THEN h
  ELSE
    LET h1 == [h EXCEPT !.log = Append(@, [op |-> reaction, wso |-> wso,
                                           mgr |-> manager])]
    IN IF reaction = "close" /\ wso
         THEN [h1 EXCEPT !.socket_ = IF @ = "good" THEN "wrshut" ELSE @]
         ELSE shutdownInner(h1, manager)

\* AsyncSocketHandler::shutdown(ctx, closeWithReset): the read callback is
\* detached, which may fire transportInactive and bring a later handler's
\* reaction back here; the transport is closed; the pipeline is deleted once.
shutdown(h, reaction, manager, wso) ==
  LET d == detachReadCallback(h, TRUE)
      d1 == IF d.fired THEN Reenter(d.h, reaction, manager, wso) ELSE d.h
      c == IF h.socket_ # "null" THEN [d1 EXCEPT !.socket_ = "closed"] ELSE h
  IN shutdownDelete(c, manager)

SockAssign(h) ==
  /\ socket_' = h.socket_
  /\ sockReadCB' = h.readCB
  /\ firedInactive_' = h.firedInactive_
  /\ pipelineDeleted_' = h.pipelineDeleted_
  /\ sockLog' = h.log
  /\ mgrDeletes' = h.deletes
  /\ sockInactives' = h.inactives

SockInit ==
  /\ socket_ \in {"good", "closed", "null"}
  /\ sockReadCB = FALSE
  /\ firedInactive_ = FALSE
  /\ pipelineDeleted_ = FALSE
  /\ manager_ = FALSE
  /\ writeFlags_ = FALSE
  /\ transport_ = FALSE
  /\ sockAlive = TRUE
  /\ sockLog = <<>>
  /\ sockDeleteDuring = 0
  /\ mgrDeletes = 0
  /\ sockInactives = 0
  /\ sockActives = 0

SockIdle ==
  /\ socket_ = "null"
  /\ sockReadCB = FALSE
  /\ firedInactive_ = FALSE
  /\ pipelineDeleted_ = FALSE
  /\ manager_ = FALSE
  /\ writeFlags_ = FALSE
  /\ transport_ = FALSE
  /\ sockAlive = TRUE
  /\ sockLog = <<>>
  /\ sockDeleteDuring = 0
  /\ mgrDeletes = 0
  /\ sockInactives = 0
  /\ sockActives = 0

\* pipeline->setPipelineManager(manager), manager null or not
SetPipelineManager(m) ==
  /\ sockAlive
  /\ manager_ # m
  /\ manager_' = m
  /\ UNCHANGED <<socket_, sockReadCB, firedInactive_, pipelineDeleted_,
                 writeFlags_, transport_, sockAlive, sockLog, sockDeleteDuring,
                 mgrDeletes, sockInactives, sockActives>>
  /\ UNCHANGED notSock

\* pipeline->setWriteFlags(flags), with WRITE_SHUTDOWN or without
SetWriteFlags(f) ==
  /\ sockAlive
  /\ writeFlags_ # f
  /\ writeFlags_' = f
  /\ UNCHANGED <<socket_, sockReadCB, firedInactive_, pipelineDeleted_,
                 manager_, transport_, sockAlive, sockLog, sockDeleteDuring,
                 mgrDeletes, sockInactives, sockActives>>
  /\ UNCHANGED notSock

\* AsyncSocketHandler::transportActive(ctx)
SockTransportActive ==
  /\ sockAlive
  /\ socket_ # "null"
  /\ sockActives < MaxActives
  /\ transport_' = TRUE
  /\ sockReadCB' = (socket_ = "good")
  /\ firedInactive_' = FALSE
  /\ sockActives' = sockActives + 1
  /\ UNCHANGED <<socket_, pipelineDeleted_, manager_, writeFlags_, sockAlive,
                 sockLog, sockDeleteDuring, mgrDeletes, sockInactives>>
  /\ UNCHANGED notSock

\* AsyncSocketHandler::transportInactive(ctx); a later handler may react to
\* the transportInactive it fires.
SockTransportInactive(reaction) ==
  /\ sockAlive
  /\ reaction # "none" => Len(sockLog) < MaxSockCalls
  /\ LET d == detachReadCallback(SockSelf, TRUE)
         h == IF d.fired THEN Reenter(d.h, reaction, manager_, writeFlags_) ELSE d.h
     IN /\ reaction # "none" => d.fired
        /\ SockAssign(h)
        /\ sockDeleteDuring' =
             IF h.deletes > mgrDeletes THEN Len(sockLog) + 1 ELSE sockDeleteDuring
  /\ transport_' = FALSE
  /\ UNCHANGED <<manager_, writeFlags_, sockAlive, sockActives>>
  /\ UNCHANGED notSock

\* AsyncSocketHandler::writeException(ctx, e)
SockWriteException(reaction) ==
  /\ sockAlive
  /\ Len(sockLog) + 1 < MaxSockCalls \/ (reaction = "none" /\ Len(sockLog) < MaxSockCalls)
  /\ LET h0 == [SockSelf EXCEPT !.log = Append(@, [op |-> "writeException",
                   wso |-> writeFlags_, mgr |-> manager_])]
         h == shutdown(h0, reaction, manager_, writeFlags_)
     IN /\ reaction # "none" => Len(h.log) = Len(sockLog) + 2
        /\ SockAssign(h)
        /\ sockDeleteDuring' =
             IF h.deletes > mgrDeletes THEN Len(sockLog) + 1 ELSE sockDeleteDuring
  /\ UNCHANGED <<manager_, writeFlags_, transport_, sockAlive, sockActives>>
  /\ UNCHANGED notSock

\* A mutant of close: the write flags are not looked at.
SockCloseIgnoresFlags(reaction) ==
  /\ sockAlive
  /\ Len(sockLog) + 1 < MaxSockCalls \/ (reaction = "none" /\ Len(sockLog) < MaxSockCalls)
  /\ writeFlags_ => socket_ # "null"
  /\ LET h0 == [SockSelf EXCEPT !.log = Append(@, [op |-> "close",
                   wso |-> writeFlags_, mgr |-> manager_])]
         h == shutdown(h0, reaction, manager_, writeFlags_)
     IN /\ reaction # "none" => Len(h.log) = Len(sockLog) + 2
        /\ SockAssign(h)
        /\ sockDeleteDuring' =
             IF h.deletes > mgrDeletes THEN Len(sockLog) + 1 ELSE sockDeleteDuring
  /\ UNCHANGED <<manager_, writeFlags_, transport_, sockAlive, sockActives>>
  /\ UNCHANGED notSock

\* AsyncSocketHandler::close(ctx)
SockClose(reaction) ==
  /\ sockAlive
  /\ Len(sockLog) + 1 < MaxSockCalls \/ (reaction = "none" /\ Len(sockLog) < MaxSockCalls)
  /\ writeFlags_ => socket_ # "null"
  /\ LET h0 == [SockSelf EXCEPT !.log = Append(@, [op |-> "close",
                   wso |-> writeFlags_, mgr |-> manager_])]
         h == IF writeFlags_
                THEN [h0 EXCEPT !.socket_ = IF @ = "good" THEN "wrshut" ELSE @]
                ELSE shutdown(h0, reaction, manager_, writeFlags_)
     IN /\ reaction # "none" => Len(h.log) = Len(sockLog) + 2
        /\ SockAssign(h)
        /\ sockDeleteDuring' =
             IF h.deletes > mgrDeletes THEN Len(sockLog) + 1 ELSE sockDeleteDuring
  /\ UNCHANGED <<manager_, writeFlags_, transport_, sockAlive, sockActives>>
  /\ UNCHANGED notSock

\* The pipeline is destroyed, by the manager it was handed to or by its last
\* user: detachPipeline(ctx) and then ~AsyncSocketHandler run.
SockDestroy ==
  /\ sockAlive
  /\ LET d == detachReadCallback(SockSelf, TRUE).h
         h == detachReadCallback(d, FALSE).h
     IN SockAssign(h)
  /\ sockAlive' = FALSE
  /\ UNCHANGED <<manager_, writeFlags_, transport_, sockDeleteDuring, sockActives>>
  /\ UNCHANGED notSock

\* AsyncSocketHandler::detachEventBase(); a later handler may react to the
\* transportInactive it fires.  Which event base the transport is bound to is
\* the transport's own state, which the handler does not keep.
SockDetachEventBase(reaction) ==
  /\ sockAlive
  /\ socket_ # "null"
  /\ reaction # "none" => Len(sockLog) < MaxSockCalls
  /\ LET d == detachReadCallback(SockSelf, TRUE)
         h == IF d.fired THEN Reenter(d.h, reaction, manager_, writeFlags_) ELSE d.h
     IN /\ reaction # "none" => d.fired
        /\ SockAssign(h)
        /\ sockDeleteDuring' =
             IF h.deletes > mgrDeletes THEN Len(sockLog) + 1 ELSE sockDeleteDuring
  /\ UNCHANGED <<manager_, writeFlags_, transport_, sockAlive, sockActives>>
  /\ UNCHANGED notSock

SockNext ==
  \/ \E m \in BOOLEAN : SetPipelineManager(m)
  \/ \E f \in BOOLEAN : SetWriteFlags(f)
  \/ SockTransportActive
  \/ \E r \in Reactions : SockTransportInactive(r)
  \/ \E r \in Reactions : SockWriteException(r)
  \/ \E r \in Reactions : SockClose(r)
  \/ SockDestroy
  \/ \E r \in Reactions : SockDetachEventBase(r)

----------------------------------------------------------------------------
(* AsyncSocketHandler::write and WriteCallback (channel/AsyncSocketHandler.h) *)

\* the buffers written; NullBuf is the null pointer
Bufs == 1..NumBufs
NullBuf == 0

\* the exceptions the transport reports a failed write with
TransportErrs == {"NETWORK_ERROR", "TIMED_OUT"}

\* AsyncTransportWrapper::good()
good(socket) == socket = "good"

\* AsyncSocketHandler::refreshTimeout: the calls it makes
refreshTimeout(manager) == IF manager THEN <<"manager.refreshTimeout">> ELSE <<>>

\* A mutant of write: the transport is not asked whether it is good.
writeUnchecked(socket, manager, buf) ==
  IF buf = NullBuf
    THEN [trace |-> refreshTimeout(manager), future |-> <<"ok">>, submit |-> FALSE]
    ELSE [trace |-> refreshTimeout(manager) \o <<"socket.writeChain">>,
          future |-> <<"pending">>, submit |-> TRUE]

\* AsyncSocketHandler::write(ctx, buf): the calls it makes on the manager and
\* the transport, the eventual it returns and whether a WriteCallback was
\* handed to the transport.
write(socket, manager, buf) ==
  IF buf = NullBuf
    THEN [trace |-> refreshTimeout(manager), future |-> <<"ok">>, submit |-> FALSE]
  ELSE IF ~good(socket)
    THEN [trace |-> refreshTimeout(manager) \o <<"socket.good">>,
          future |-> <<"failed", "NOT_OPEN">>, submit |-> FALSE]
  ELSE [trace |-> refreshTimeout(manager) \o <<"socket.good", "socket.writeChain">>,
        future |-> <<"pending">>, submit |-> TRUE]

WrIdle ==
  /\ wrFutures = <<>>
  /\ wrSubmits = <<>>
  /\ wrPending = <<>>
  /\ wrTrace = <<>>

\* handler->write(ctx, buf), buf null or not
SockWrite(buf) ==
  /\ sockAlive
  /\ socket_ # "null"
  /\ Len(wrFutures) < MaxWrites
  /\ LET w == write(socket_, manager_, buf)
         k == Len(wrFutures) + 1
     IN /\ wrFutures' = Append(wrFutures, w.future)
        /\ wrTrace' = w.trace
        /\ wrSubmits' = IF w.submit
                          THEN Append(wrSubmits, [call |-> k, buf |-> buf,
                                                  flags |-> writeFlags_])
                          ELSE wrSubmits
        /\ wrPending' = IF w.submit THEN Append(wrPending, k) ELSE wrPending
  /\ UNCHANGED sockVars
  /\ UNCHANGED notWr

\* WriteCallback::writeSuccess of the oldest write the transport holds
WriteSuccess ==
  /\ wrPending # <<>>
  /\ wrFutures' = [wrFutures EXCEPT ![Head(wrPending)] = <<"ok">>]
  /\ wrPending' = Tail(wrPending)
  /\ UNCHANGED <<wrSubmits, wrTrace>>
  /\ UNCHANGED sockVars
  /\ UNCHANGED notWr

\* WriteCallback::writeErr(bytesWritten, ex) of the oldest write the
\* transport holds
WriteErr(ex) ==
  /\ wrPending # <<>>
  /\ wrFutures' = [wrFutures EXCEPT ![Head(wrPending)] = <<"failed", ex>>]
  /\ wrPending' = Tail(wrPending)
  /\ UNCHANGED <<wrSubmits, wrTrace>>
  /\ UNCHANGED sockVars
  /\ UNCHANGED notWr

\* The transport stops being good: the peer closes the connection or it
\* fails.  (The handler shares the transport; AsyncTransportWrapper::good()
\* is the transport's own state.)
TransportCloses ==
  /\ socket_ = "good"
  /\ socket_' = "closed"
  /\ UNCHANGED <<sockReadCB, firedInactive_, pipelineDeleted_, manager_,
                 writeFlags_, transport_, sockAlive, sockLog, sockDeleteDuring,
                 mgrDeletes, sockInactives, sockActives>>
  /\ UNCHANGED notSock

\* The write path, with what changes the transport's state and the manager
\* under it.
WrNext ==
  \/ \E buf \in Bufs \cup {NullBuf} : SockWrite(buf)
  \/ WriteSuccess
  \/ \E ex \in TransportErrs : WriteErr(ex)
  \/ \E m \in BOOLEAN : SetPipelineManager(m)
  \/ \E f \in BOOLEAN : SetWriteFlags(f)
  \/ TransportCloses

----------------------------------------------------------------------------
(* Events through the pipeline: entry points, fire methods, default handlers *)

InEvents == {"read", "readEOF", "readException", "transportActive",
             "transportInactive"}
OutEvents == {"write", "writeException", "close"}
Events == InEvents \cup OutEvents

Msgs == 1..NumMsgs

\* the events that carry a message
Carries(ev) == ev \in {"read", "write"}

\* What the handler of class cls passes on for event ev with message msg.
\* HandlerAdapter::read and write and every default implementation pass the
\* message on as it is; a handler that turns one type into another passes on
\* the converted message.
Forwarded(cls, ev, msg) ==
  LET h == HandlerClass[cls]
  IN IF (ev = "read" /\ h.rin # h.rout) \/ (ev = "write" /\ h.win # h.wout)
       THEN <<cls, msg>>
       ELSE msg

\* nextIn_ for an inbound event, nextOut_ for an outbound one
NextLink(tab, c, ev) == IF ev \in InEvents THEN tab[c].nextIn_ ELSE tab[c].nextOut_

\* A mutant of the fire methods: at the end of the chain they throw.
fireAtEndThrows(ev) == "invalid_argument"

\* The fire methods with a null next link: the inbound ones log a warning (or
\* nothing) and return, the outbound ones return makeFuture().
fireAtEnd(ev) == IF ev \in InEvents THEN "returned" ELSE "future ok"

\* A mutant of the link methods: the context hands the event on to the next
\* one without invoking its own handler.
RECURSIVE DeliverSkipping(_, _, _, _, _)
DeliverSkipping(tab, c, ev, msg, fuel) ==
  LET next == NextLink(tab, c, ev)
  IN IF next = Null \/ fuel = 0 THEN <<>>
     ELSE <<[ctx |-> next, ev |-> ev, msg |-> msg]>>
          \o DeliverSkipping(tab, next, ev, msg, fuel - 1)

\* The link method ev of context c (read, readEOF, ..., close): it invokes
\* the handler's method, whose pass-through implementation calls the
\* context's fire method, which calls the link method of the next context if
\* there is one.  The handler methods invoked, in order.
RECURSIVE Deliver(_, _, _, _, _)
Deliver(tab, c, ev, msg, fuel) ==
  LET next == NextLink(tab, c, ev)
  IN <<[ctx |-> c, ev |-> ev, msg |-> msg]>>
     \o (IF next = Null \/ fuel = 0 THEN <<>>
         ELSE Deliver(tab, next, ev, Forwarded(tab[c].cls, ev, msg), fuel - 1))

\* ctx->fire<Ev>(msg) on context c.
fire(tab, c, ev, msg) ==
  LET next == NextLink(tab, c, ev)
  IN IF next = Null
       THEN [log |-> <<>>, result |-> fireAtEnd(ev)]
       ELSE [log |-> Deliver(tab, next, ev, msg, Len(ctxs_)),
             result |-> IF ev \in InEvents THEN "returned" ELSE "future ok"]

\* A mutant of the entry points: readEOF has no check of front_.
EntryThrowsButReadEOF(ev, front, back) ==
  \/ ev \in {"read", "readException"} /\ front = Null
  \/ ev \in OutEvents /\ back = Null

\* A mutant of the entry points: every inbound one checks front_ and throws.
EntryThrowsAllInbound(ev, front, back) ==
  \/ ev \in InEvents /\ front = Null
  \/ ev \in OutEvents /\ back = Null

\* Whether the entry point ev of Pipeline<R, W> throws invalid_argument:
\* read, readEOF, readException on a null front_, write, writeException,
\* close on a null back_; transportActive and transportInactive never.
EntryThrows(ev, front, back) ==
  \/ ev \in {"read", "readEOF", "readException"} /\ front = Null
  \/ ev \in OutEvents /\ back = Null

\* Pipeline<R, W>::<ev>(msg)
Entry(tab, front, back, ev, msg) ==
  LET first == IF ev \in InEvents THEN front ELSE back
  IN IF EntryThrows(ev, front, back)
       THEN [log |-> <<>>, result |-> "invalid_argument"]
     ELSE IF first = Null
       THEN [log |-> <<>>, result |-> "returned"]
     ELSE [log |-> Deliver(tab, first, ev, msg, Len(ctxs_)),
           result |-> IF ev \in InEvents THEN "returned" ELSE "future ok"]

NoCall == [kind |-> "none", ev |-> "none", msg |-> 0, ctx |-> Null]

FlowIdle ==
  /\ flCall = NoCall
  /\ flLog = <<>>
  /\ flResult = "none"

\* the pipelines of the flow specification: up to MaxCtxs handlers, all
\* added with addBack or all with addFront, then finalize()
FlowSeqs ==
  UNION {[1..n -> Classes \X {f}] : n \in 0..MaxCtxs, f \in BOOLEAN}

FlowInit ==
  /\ plR \in {"A", "B"}
  /\ plW \in {"A", "B", "U"}
  /\ isStatic_ = FALSE
  /\ \E adds \in FlowSeqs :
       LET pl == finalize(Build(adds, Len(adds)), plR, plW)
       IN /\ ctxTab = pl.ctxTab
          /\ ctxs_ = pl.ctxs_
          /\ inCtxs_ = pl.inCtxs_
          /\ outCtxs_ = pl.outCtxs_
          /\ front_ = pl.front_
          /\ back_ = pl.back_
          /\ plStatus = pl.plStatus
  /\ owner_ = Null
  /\ plNominated = Null
  /\ plOwners = 1
  /\ plCalls = <<>>
  /\ plDestroyed = FALSE
  /\ detachLog = <<>>
  /\ FlowIdle

\* pipeline->read(msg), readEOF(), ..., close(): the inbound entry points
\* exist for R other than Unit, the outbound ones for W other than Unit.
PipelineCall(ev, msg) ==
  /\ flCall = NoCall
  /\ ev \in InEvents => plR # "U"
  /\ ev \in OutEvents => plW # "U"
  /\ msg = 0 <=> ~Carries(ev)
  /\ LET r == Entry(ctxTab, front_, back_, ev, msg)
     IN /\ flLog' = r.log
        /\ flResult' = r.result
  /\ flCall' = [kind |-> "pipeline", ev |-> ev, msg |-> msg, ctx |-> Null]
  /\ UNCHANGED notFlow

\* ctx->fireRead(msg), fireReadEOF(), ..., fireClose() on context c, called
\* by its handler: an inbound context has the inbound fire methods, an
\* outbound one the outbound ones.
CtxFire(c, ev, msg) ==
  /\ flCall = NoCall
  /\ c \in DOMAIN ctxTab
  /\ ev \in InEvents => InCapable(ctxTab[c].cls)
  /\ ev \in OutEvents => OutCapable(ctxTab[c].cls)
  /\ msg = 0 <=> ~Carries(ev)
  /\ LET r == fire(ctxTab, c, ev, msg)
     IN /\ flLog' = r.log
        /\ flResult' = r.result
  /\ flCall' = [kind |-> "fire", ev |-> ev, msg |-> msg, ctx |-> c]
  /\ UNCHANGED notFlow

\* The handlers modelled keep no state of their own, so a call's outcome
\* does not depend on the calls before it: each behaviour makes one call.
FlowNext ==
  \/ \E ev \in Events, msg \in Msgs \cup {0} : PipelineCall(ev, msg)
  \/ \E c \in 1..MaxCtxs, ev \in Events, msg \in Msgs \cup {0} : CtxFire(c, ev, msg)

----------------------------------------------------------------------------
(* Codel (concurrent/Codel.cpp) *)

\* DEFINE_int32(codel_interval, 100, ...) and
\* DEFINE_int32(codel_target_delay, 5, ...), in ms
FLAGS_codel_interval == 100
FLAGS_codel_target_delay == 5

\* the detector's members as one record
CodelSelf ==
  [codelMinDelay_ |-> codelMinDelay_, codelIntervalTime_ |-> codelIntervalTime_,
   codelResetDelay_ |-> codelResetDelay_, overloaded_ |-> overloaded_]

\* A mutant of the interval reset: the detector becomes overloaded when the
\* minimum delay reaches the target.
intervalResetAtTarget(c, now) ==
  IF now > c.codelIntervalTime_ /\ ~c.codelResetDelay_
    THEN [c EXCEPT !.codelResetDelay_ = TRUE,
                   !.codelIntervalTime_ = now + FLAGS_codel_interval,
                   !.overloaded_ = (c.codelMinDelay_ >= FLAGS_codel_target_delay)]
    ELSE c

\* Codel::overloaded, its first if statement: past the interval's end, the
\* one caller that sets codelResetDelay_ starts the next interval and decides
\* overloaded_ from the minimum delay of the interval that ended.
intervalReset(c, now) ==
  IF now > c.codelIntervalTime_ /\ ~c.codelResetDelay_
    THEN [c EXCEPT !.codelResetDelay_ = TRUE,
                   !.codelIntervalTime_ = now + FLAGS_codel_interval,
                   !.overloaded_ = (c.codelMinDelay_ > FLAGS_codel_target_delay)]
    ELSE c

\* A mutant of overloaded: a request is shed when its delay exceeds the
\* target rather than twice the target.
overloadedAtTarget(c, delay, now) ==
  LET c1 == intervalReset(c, now)
  IN IF c1.codelResetDelay_
       THEN [c |-> [c1 EXCEPT !.codelResetDelay_ = FALSE, !.codelMinDelay_ = delay],
             ret |-> FALSE]
       ELSE [c |-> IF delay < c1.codelMinDelay_
                     THEN [c1 EXCEPT !.codelMinDelay_ = delay] ELSE c1,
             ret |-> c1.overloaded_ /\ delay > FLAGS_codel_target_delay]

\* Codel::overloaded(delay) called at time now by one thread at a time: the
\* members afterwards and the value returned.
overloaded(c, delay, now) ==
  LET c1 == intervalReset(c, now)
  IN IF c1.codelResetDelay_
       THEN [c |-> [c1 EXCEPT !.codelResetDelay_ = FALSE, !.codelMinDelay_ = delay],
             ret |-> FALSE]
       ELSE [c |-> IF delay < c1.codelMinDelay_
                     THEN [c1 EXCEPT !.codelMinDelay_ = delay] ELSE c1,
             ret |-> c1.overloaded_ /\ delay > FLAGS_codel_target_delay * 2]

\* the delays given to the detector
Delays == 0..MaxDelay

\* how far the steady clock moves between two calls: not at all, by one
\* interval exactly, by more than one interval
Advances == {0, FLAGS_codel_interval, FLAGS_codel_interval + 1}

\* Codel::Codel(), constructed at time 0
CodelInit ==
  /\ codelMinDelay_ = 0
  /\ codelIntervalTime_ = 0
  /\ codelResetDelay_ = TRUE
  /\ overloaded_ = FALSE
  /\ cdNow = 0
  /\ cdDelay = 0
  /\ cdRet = FALSE
  /\ cdAllLow = TRUE
  /\ cdWindowMin = MaxDelay + 1

CodelIdle == CodelInit

\* codel.overloaded(delay), dt after the call before
CodelOverloaded(delay, dt) ==
  /\ cdNow + dt <= MaxTime
  /\ LET r == overloaded(CodelSelf, delay, cdNow + dt)
     IN /\ codelMinDelay_' = r.c.codelMinDelay_
        /\ codelIntervalTime_' = r.c.codelIntervalTime_
        /\ codelResetDelay_' = r.c.codelResetDelay_
        /\ overloaded_' = r.c.overloaded_
        /\ cdRet' = r.ret
  /\ cdNow' = cdNow + dt
  /\ cdDelay' = delay
  /\ cdAllLow' = (cdAllLow /\ delay <= FLAGS_codel_target_delay)
  /\ cdWindowMin' = IF codelIntervalTime_' # codelIntervalTime_ \/ delay < cdWindowMin
                      THEN delay ELSE cdWindowMin
  /\ UNCHANGED notCodel

CodelNext == \E delay \in Delays, dt \in Advances : CodelOverloaded(delay, dt)

----------------------------------------------------------------------------
(* Codel::overloaded called by several threads (concurrent/Codel.cpp) *)

Threads == 1..NumThreads

\* the delays the threads give: at the target and above twice the target
MtDelays == {FLAGS_codel_target_delay, MaxDelay}

NoLocals == [now |-> 0, minDelay |-> 0, delay |-> 0]

MtIdle ==
  /\ mtPc = [t \in Threads |-> "idle"]
  /\ mtLocal = [t \in Threads |-> NoLocals]
  /\ mtCalls = 0
  /\ mtLog = <<>>

\* Thread t enters overloaded(delay), dt after the call before: it reads
\* the clock and copies codelMinDelay_ (lines 37-42).
MtEnter(t, delay, dt) ==
  /\ mtPc[t] = "idle"
  /\ mtCalls < MaxMtCalls
  /\ cdNow + dt <= MaxTime
  /\ cdNow' = cdNow + dt
  /\ mtLocal' = [mtLocal EXCEPT ![t] = [now |-> cdNow + dt,
                                        minDelay |-> codelMinDelay_,
                                        delay |-> delay]]
  /\ mtPc' = [mtPc EXCEPT ![t] = "claim"]
  /\ mtCalls' = mtCalls + 1
  /\ UNCHANGED <<codelMinDelay_, codelIntervalTime_, codelResetDelay_, overloaded_,
                 cdDelay, cdRet, cdAllLow, cdWindowMin, mtLog>>
  /\ UNCHANGED notMt

\* The condition of the first if statement (lines 44-46): past the
\* interval's end, the thread whose exchange(true) finds codelResetDelay_
\* clear goes on to roll the interval over.
MtClaim(t) ==
  /\ mtPc[t] = "claim"
  /\ IF mtLocal[t].now > codelIntervalTime_ /\ ~codelResetDelay_
       THEN /\ codelResetDelay_' = TRUE
            /\ mtPc' = [mtPc EXCEPT ![t] = "rollover"]
       ELSE /\ codelResetDelay_' = codelResetDelay_
            /\ mtPc' = [mtPc EXCEPT ![t] = "reset"]
  /\ UNCHANGED <<codelMinDelay_, codelIntervalTime_, overloaded_, cdNow, cdDelay,
                 cdRet, cdAllLow, cdWindowMin, mtLocal, mtCalls, mtLog>>
  /\ UNCHANGED notMt

\* The body of the first if statement (lines 47-53): the next interval's end
\* and the overloaded state.
MtRollover(t) ==
  /\ mtPc[t] = "rollover"
  /\ codelIntervalTime_' = mtLocal[t].now + FLAGS_codel_interval
  /\ overloaded_' = (mtLocal[t].minDelay > FLAGS_codel_target_delay)
  /\ mtLog' = Append(mtLog, [ev |-> "rollover", now |-> mtLocal[t].now])
  /\ mtPc' = [mtPc EXCEPT ![t] = "reset"]
  /\ UNCHANGED <<codelMinDelay_, codelResetDelay_, cdNow, cdDelay, cdRet,
                 cdAllLow, cdWindowMin, mtLocal, mtCalls>>
  /\ UNCHANGED notMt

\* The second if statement (lines 57-65): the thread whose exchange(false)
\* finds codelResetDelay_ set stores its delay as the minimum and returns
\* false; any other thread lowers the minimum to its delay.
MtReset(t) ==
  /\ mtPc[t] = "reset"
  /\ IF codelResetDelay_
       THEN /\ codelResetDelay_' = FALSE
            /\ codelMinDelay_' = mtLocal[t].delay
            /\ mtLog' = Append(mtLog, [ev |-> "reset", now |-> mtLocal[t].now])
            /\ mtPc' = [mtPc EXCEPT ![t] = "idle"]
       ELSE /\ codelResetDelay_' = codelResetDelay_
            /\ codelMinDelay_' = IF mtLocal[t].delay < codelMinDelay_
                                   THEN mtLocal[t].delay ELSE codelMinDelay_
            /\ mtLog' = mtLog
            /\ mtPc' = [mtPc EXCEPT ![t] = "return"]
  /\ UNCHANGED <<codelIntervalTime_, overloaded_, cdNow, cdDelay, cdRet,
                 cdAllLow, cdWindowMin, mtLocal, mtCalls>>
  /\ UNCHANGED notMt

\* The last if statement and the return (lines 67-73).
MtReturn(t) ==
  /\ mtPc[t] = "return"
  /\ cdRet' = (overloaded_ /\ mtLocal[t].delay > FLAGS_codel_target_delay * 2)
  /\ cdDelay' = mtLocal[t].delay
  /\ mtPc' = [mtPc EXCEPT ![t] = "idle"]
  /\ UNCHANGED <<codelMinDelay_, codelIntervalTime_, codelResetDelay_, overloaded_,
                 cdNow, cdAllLow, cdWindowMin, mtLocal, mtCalls, mtLog>>
  /\ UNCHANGED notMt

MtNext ==
  \/ \E t \in Threads, delay \in MtDelays, dt \in Advances : MtEnter(t, delay, dt)
  \/ \E t \in Threads : MtClaim(t)
  \/ \E t \in Threads : MtRollover(t)
  \/ \E t \in Threads : MtReset(t)
  \/ \E t \in Threads : MtReturn(t)

----------------------------------------------------------------------------
(* EventBaseHandler (channel/EventBaseHandler.h) *)

\* the thread of the transport's event base, and every calling thread
LoopThread == 0
Callers == 0..NumCallers

EbOps == {"write", "close"}

\* what the next outbound handler's eventual may hold
EbOutcomes == {"ok", "failed"}

\* folly::Future<folly::Unit> retval: default constructed (lines 32, 48)
DefaultFuture == <<0, "ok">>

NoEbCall == [n |-> 0, op |-> "none", retval |-> DefaultFuture]

EbIdle ==
  /\ ebPc = [c \in Callers |-> "idle"]
  /\ ebLocal = [c \in Callers |-> NoEbCall]
  /\ ebQueue = <<>>
  /\ ebCalls = 0
  /\ ebFired = <<>>
  /\ ebReturned = <<>>

\* every thread is taken for the loop thread
runImmediatelyAlways(c) == TRUE

\* runImmediatelyOrRunInEventBaseThreadAndWait runs the function at once
\* when the caller is in the event base's thread
runImmediately(c) == c = LoopThread

\* write or close (lines 29-53) called by thread c: on the loop thread the
\* body runs inline and the call returns; any other thread hands the body to
\* the loop and waits.
EbCall(c, op) ==
  /\ ebPc[c] = "idle"
  /\ ebCalls < MaxEbCalls
  /\ ebCalls' = ebCalls + 1
  /\ IF runImmediately(c)
       THEN \E res \in EbOutcomes :
              /\ ebFired' = Append(ebFired, [n |-> ebCalls + 1, op |-> op, thread |-> c,
                                              fut |-> <<ebCalls + 1, res>>])
              /\ ebReturned' = Append(ebReturned, [n |-> ebCalls + 1, op |-> op, caller |-> c,
                                                    fut |-> <<ebCalls + 1, res>>])
              /\ UNCHANGED <<ebPc, ebLocal, ebQueue>>
       ELSE /\ ebQueue' = Append(ebQueue, [n |-> ebCalls + 1, op |-> op, caller |-> c])
            /\ ebPc' = [ebPc EXCEPT ![c] = "waiting"]
            /\ ebLocal' = [ebLocal EXCEPT ![c] = [n |-> ebCalls + 1, op |-> op,
                                                  retval |-> DefaultFuture]]
            /\ UNCHANGED <<ebFired, ebReturned>>
  /\ UNCHANGED notEb

\* The loop thread runs the oldest body handed to it (lines 40, 50): the
\* downstream call's eventual is stored in the waiting caller's retval.
EbLoopRuns ==
  /\ ebQueue # <<>>
  /\ LET h == Head(ebQueue) IN
       \E res \in EbOutcomes :
         /\ ebFired' = Append(ebFired, [n |-> h.n, op |-> h.op, thread |-> LoopThread,
                                         fut |-> <<h.n, res>>])
         /\ ebLocal' = [ebLocal EXCEPT ![h.caller].retval = <<h.n, res>>]
         /\ ebPc' = [ebPc EXCEPT ![h.caller] = "ready"]
  /\ ebQueue' = Tail(ebQueue)
  /\ UNCHANGED <<ebCalls, ebReturned>>
  /\ UNCHANGED notEb

\* The wait is over: the caller returns retval (lines 42, 52).
EbReturn(c) ==
  /\ ebPc[c] = "ready"
  /\ ebReturned' = Append(ebReturned, [n |-> ebLocal[c].n, op |-> ebLocal[c].op,
                                        caller |-> c, fut |-> ebLocal[c].retval])
  /\ ebPc' = [ebPc EXCEPT ![c] = "idle"]
  /\ ebLocal' = [ebLocal EXCEPT ![c] = NoEbCall]
  /\ UNCHANGED <<ebQueue, ebCalls, ebFired>>
  /\ UNCHANGED notEb

EbNext ==
  \/ \E c \in Callers, op \in EbOps : EbCall(c, op)
  \/ EbLoopRuns
  \/ \E c \in Callers : EbReturn(c)

----------------------------------------------------------------------------
(* ClientBootstrap (bootstrap/ClientBootstrap.h, BaseClientBootstrap.h) *)

\* typename P::Ptr pipeline_ holds no pipeline
NoPipeline == 0

\* the exceptions the transport reports for a failed connect
ConnectErrs == {"timed out", "refused"}

BtIdle ==
  /\ btAlive = TRUE
  /\ sslContext_ = FALSE
  /\ sslSessionEstablishedCallback_ = FALSE
  /\ pipeline_ = NoPipeline
  /\ btConns = <<>>
  /\ btLog = <<>>

\* a bootstrap configured with or without a TLS context and a
\* session-established callback, before its first connect
BtInit ==
  /\ btAlive = TRUE
  /\ sslContext_ \in BOOLEAN
  /\ sslSessionEstablishedCallback_ \in BOOLEAN
  /\ pipeline_ = NoPipeline
  /\ btConns = <<>>
  /\ btLog = <<>>

\* connect (lines 101-141): the socket is TLS when a context is set, the
\* callback object takes the promise and the bootstrap's session-established
\* callback, and the eventual of that promise is returned.
BtConnect ==
  /\ btAlive
  /\ Len(btConns) < MaxConnects
  /\ btConns' = Append(btConns, [tls |-> sslContext_,
                                 cb |-> sslSessionEstablishedCallback_,
                                 outcome |-> "none", reused |-> FALSE,
                                 completions |-> 0, fut |-> <<"pending", 0>>])
  /\ sslSessionEstablishedCallback_' = FALSE
  /\ UNCHANGED <<btAlive, sslContext_, pipeline_, btLog>>
  /\ UNCHANGED notBt

\* connectSuccess with the eventual fulfilled before transportActive
connectSuccessValueFirst(alive, conn, reused, c, p) ==
  IF ~alive THEN <<>>
  ELSE (IF conn.cb /\ conn.tls /\ ~reused
          THEN <<[ev |-> "onEstablished", conn |-> c, p |-> NoPipeline]>> ELSE <<>>)
       \o <<[ev |-> "newPipeline", conn |-> c, p |-> p]>>
       \o <<[ev |-> "setValue", conn |-> c, p |-> p]>>
       \o (IF p # NoPipeline
             THEN <<[ev |-> "transportActive", conn |-> c, p |-> p]>> ELSE <<>>)

\* What connectSuccess (lines 52-70) does, in order, for connect c whose
\* factory call gives pipeline p.
connectSuccess(alive, conn, reused, c, p) ==
  IF ~alive THEN <<>>
  ELSE (IF conn.cb /\ conn.tls /\ ~reused
          THEN <<[ev |-> "onEstablished", conn |-> c, p |-> NoPipeline]>> ELSE <<>>)
       \o <<[ev |-> "newPipeline", conn |-> c, p |-> p]>>
       \o (IF p # NoPipeline
             THEN <<[ev |-> "transportActive", conn |-> c, p |-> p]>> ELSE <<>>)
       \o <<[ev |-> "setValue", conn |-> c, p |-> p]>>

\* connectErr with the promise dropped
connectErrDropsPromise(ex) == <<"exception", "BrokenPromise">>

\* connectErr (lines 72-76): the eventual gets the transport's exception
connectErr(ex) == <<"exception", ex>>

\* The transport reports success for connect c; reused tells whether a TLS
\* session was resumed, p is what the factory returns. With the bootstrap
\* destroyed nothing is done and delete this (line 69) destroys the
\* unfulfilled promise, which completes the eventual with BrokenPromise.
BtConnectSuccess(c, reused, p) ==
  /\ c \in DOMAIN btConns
  /\ btConns[c].outcome = "none"
  /\ LET did == connectSuccess(btAlive, btConns[c], reused, c, p)
         fulfilled == \E i \in DOMAIN did : did[i].ev = "setValue"
     IN  /\ btLog' = btLog \o did
         /\ pipeline_' = IF btAlive THEN p ELSE pipeline_
         /\ btConns' = [btConns EXCEPT ![c].outcome = "success",
                                       ![c].reused = reused,
                                       ![c].completions = @ + 1,
                                       ![c].fut = IF fulfilled THEN <<"value", p>>
                                                  ELSE <<"exception", "BrokenPromise">>]
  /\ UNCHANGED <<btAlive, sslContext_, sslSessionEstablishedCallback_>>
  /\ UNCHANGED notBt

\* The transport reports failure ex for connect c.
BtConnectErr(c, ex) ==
  /\ c \in DOMAIN btConns
  /\ btConns[c].outcome = "none"
  /\ btLog' = Append(btLog, [ev |-> "setException", conn |-> c, p |-> NoPipeline])
  /\ btConns' = [btConns EXCEPT ![c].outcome = "failure",
                                ![c].completions = @ + 1,
                                ![c].fut = connectErr(ex)]
  /\ UNCHANGED <<btAlive, sslContext_, sslSessionEstablishedCallback_, pipeline_>>
  /\ UNCHANGED notBt

\* ~ClientBootstrap (line 143): the pipeline reference is released and the
\* callback objects of the connects in flight see safety_.destroyed().
BtDestroy ==
  /\ btAlive
  /\ btAlive' = FALSE
  /\ pipeline_' = NoPipeline
  /\ UNCHANGED <<sslContext_, sslSessionEstablishedCallback_, btConns, btLog>>
  /\ UNCHANGED notBt

BtNext ==
  \/ BtConnect
  \/ \E c \in 1..MaxConnects, reused \in BOOLEAN :
       \E p \in {NoPipeline, c} : BtConnectSuccess(c, reused, p)
  \/ \E c \in 1..MaxConnects, ex \in ConnectErrs : BtConnectErr(c, ex)
  \/ BtDestroy

----------------------------------------------------------------------------
(* Handlers shared between pipelines: addBack, finalize, remove, destruction *)

ShPipelines == {"p", "q"}
\* the handler objects the pipelines are given: two of class sock (BOTH) and
\* one of class dec (IN)
ShHandlers == {1, 2, 3}
ShClassOf(h) == IF h = 3 THEN "dec" ELSE "sock"

\* HandlerBase's members as constructed
NewHandler == [attachCount_ |-> 0, ctx_ |-> Null]

ShState ==
  [hs |-> shHs, ctxs |-> shCtxs, all |-> shAll, ins |-> shIn, outs |-> shOut,
   thrown |-> shThrown, detached |-> shDetached]

ShAssign(st) ==
  /\ shHs' = st.hs
  /\ shCtxs' = st.ctxs
  /\ shAll' = st.all
  /\ shIn' = st.ins
  /\ shOut' = st.outs
  /\ shThrown' = st.thrown
  /\ shDetached' = st.detached

ShIdle ==
  /\ shHs = [h \in ShHandlers |-> NewHandler]
  /\ shCtxs = <<>>
  /\ shAll = [p \in ShPipelines |-> <<>>]
  /\ shIn = [p \in ShPipelines |-> <<>>]
  /\ shOut = [p \in ShPipelines |-> <<>>]
  /\ shGone = {}
  /\ shThrown = "none"
  /\ shDetached = FALSE

\* the outcome of getContext when CHECK(ctx_) fails: the process aborts
CheckFailed == 0 - 1

\* HandlerBase::getContext
getContext(hs, h) ==
  IF hs[h].attachCount_ # 1 THEN Null
  ELSE IF hs[h].ctx_ = Null THEN CheckFailed ELSE hs[h].ctx_

\* addBack with handler h on pipeline p: a new context bound to h goes to
\* the end of the lists the handler's direction names.
addShared(st, p, h) ==
  LET c == Len(st.ctxs) + 1
      cls == ShClassOf(h)
  IN [st EXCEPT
        !.ctxs = Append(st.ctxs, [pl |-> p, h |-> h, cls |-> cls, attached_ |-> FALSE]),
        !.all[p] = Append(st.all[p], c),
        !.ins[p] = IF InCapable(cls) THEN Append(st.ins[p], c) ELSE st.ins[p],
        !.outs[p] = IF OutCapable(cls) THEN Append(st.outs[p], c) ELSE st.outs[p],
        !.thrown = "none"]

\* attachPipeline without the test of attached_
attachPipelineAgain(st, c) ==
  LET h == st.ctxs[c].h
      n == st.hs[h].attachCount_ + 1
  IN [st EXCEPT !.hs[h] = [attachCount_ |-> n, ctx_ |-> IF n = 1 THEN c ELSE Null],
                !.ctxs[c].attached_ = TRUE]

\* ContextImplBase::attachPipeline on context c with attachContext on its
\* handler
attachPipelineShared(st, c) ==
  IF st.ctxs[c].attached_ THEN st
  ELSE LET h == st.ctxs[c].h
           n == st.hs[h].attachCount_ + 1
       IN [st EXCEPT !.hs[h] = [attachCount_ |-> n, ctx_ |-> IF n = 1 THEN c ELSE Null],
                     !.ctxs[c].attached_ = TRUE]

\* ContextImplBase::detachPipeline on context c with detachContext on its
\* handler
detachPipelineShared(st, c) ==
  LET h == st.ctxs[c].h
      n == st.hs[h].attachCount_
  IN [st EXCEPT !.hs[h] = [attachCount_ |-> IF n >= 1 THEN n - 1 ELSE n, ctx_ |-> Null],
                !.ctxs[c].attached_ = FALSE,
                !.detached = TRUE]

RECURSIVE AttachAllShared(_, _, _)
AttachAllShared(st, all, i) ==
  IF i < 1 THEN st ELSE AttachAllShared(attachPipelineShared(st, all[i]), all, i - 1)

\* The contexts with the link members finalize sets.
WithLinks(ctxs) ==
  [c \in DOMAIN ctxs |-> [cls |-> ctxs[c].cls, nextIn_ |-> Null, nextOut_ |-> Null]]

\* Pipeline::finalize on pipeline p: the IN chain, the OUT chain, then
\* attachPipeline on every context from the last to the first; a mismatch of
\* neighbouring types throws before anything is attached. The links made are
\* those of the construction component and are not kept here.
finalizeShared(st, p) ==
  LET li == IF st.ins[p] # <<>> THEN LinkIn(WithLinks(st.ctxs), st.ins[p], 1)
                                ELSE [tab |-> WithLinks(st.ctxs), ok |-> TRUE]
      lo == IF st.outs[p] # <<>> THEN LinkOut(li.tab, st.outs[p], Len(st.outs[p]))
                                 ELSE [tab |-> li.tab, ok |-> TRUE]
  IN IF ~li.ok \/ ~lo.ok THEN [st EXCEPT !.thrown = "invalid_argument"]
     ELSE AttachAllShared([st EXCEPT !.thrown = "none"], st.all[p], Len(st.all[p]))

\* PipelineBase::removeAt on context c of pipeline p: the context is
\* detached and erased from ctxs_ and, by its direction, inCtxs_ and outCtxs_.
removeAt(st, p, c) ==
  LET d == detachPipelineShared(st, c)
      without(seq) == SelectSeq(seq, LAMBDA x : x # c)
  IN [d EXCEPT !.all[p] = without(d.all[p]),
               !.ins[p] = without(d.ins[p]),
               !.outs[p] = without(d.outs[p])]

RECURSIVE RemoveEach(_, _, _, _)
RemoveEach(st, p, cs, i) ==
  IF i > Len(cs) THEN st ELSE RemoveEach(removeAt(st, p, cs[i]), p, cs, i + 1)

\* removeHelper that stops at the first context it removes
removeHelperFirst(st, p, cls, handler, checkEqual) ==
  LET hit == SelectSeq(st.all[p],
               LAMBDA c : st.ctxs[c].cls = cls /\ (~checkEqual \/ st.ctxs[c].h = handler))
  IN IF hit = <<>> THEN [st EXCEPT !.thrown = "invalid_argument"]
     ELSE RemoveEach([st EXCEPT !.thrown = "none"], p, <<hit[1]>>, 1)

\* PipelineBase::removeHelper<H>(handler, checkEqual) on pipeline p, H being
\* class cls: every context of ctxs_ that is a context of an H, and with
\* checkEqual is bound to handler, is removed, in the order of ctxs_; with
\* none removed it throws invalid_argument.
removeHelper(st, p, cls, handler, checkEqual) ==
  LET hit == SelectSeq(st.all[p],
               LAMBDA c : st.ctxs[c].cls = cls /\ (~checkEqual \/ st.ctxs[c].h = handler))
  IN IF hit = <<>> THEN [st EXCEPT !.thrown = "invalid_argument"]
     ELSE RemoveEach([st EXCEPT !.thrown = "none"], p, hit, 1)

\* PipelineBase::detachHandlers of a pipeline without owner: every context
\* of ctxs_ is detached, the last one first.
RECURSIVE DetachAllShared(_, _, _)
DetachAllShared(st, all, i) ==
  IF i < 1 THEN st ELSE DetachAllShared(detachPipelineShared(st, all[i]), all, i - 1)

\* pipeline p ->addBack(h)
ShAdd(p, h) ==
  /\ p \notin shGone
  /\ Len(shCtxs) < MaxShCtxs
  /\ ShAssign(addShared(ShState, p, h))
  /\ UNCHANGED shGone
  /\ UNCHANGED notSh

\* pipeline p ->finalize()
ShFinalize(p) ==
  /\ p \notin shGone
  /\ ShAssign(finalizeShared(ShState, p))
  /\ UNCHANGED shGone
  /\ UNCHANGED notSh

\* pipeline p ->remove(h)
ShRemove(p, h) ==
  /\ p \notin shGone
  /\ ShAssign(removeHelper(ShState, p, ShClassOf(h), h, TRUE))
  /\ UNCHANGED shGone
  /\ UNCHANGED notSh

\* pipeline p ->remove<H>() with H the class cls
ShRemoveType(p, cls) ==
  /\ p \notin shGone
  /\ ShAssign(removeHelper(ShState, p, cls, Null, FALSE))
  /\ UNCHANGED shGone
  /\ UNCHANGED notSh

\* ~Pipeline of the non-static pipeline p
ShDestroy(p) ==
  /\ p \notin shGone
  /\ LET d == DetachAllShared([ShState EXCEPT !.thrown = "none"], shAll[p], Len(shAll[p]))
     IN ShAssign([d EXCEPT !.all[p] = <<>>, !.ins[p] = <<>>, !.outs[p] = <<>>])
  /\ shGone' = shGone \cup {p}
  /\ UNCHANGED notSh

ShNext ==
  \/ \E p \in ShPipelines, h \in ShHandlers : ShAdd(p, h)
  \/ \E p \in ShPipelines : ShFinalize(p)
  \/ \E p \in ShPipelines, h \in ShHandlers : ShRemove(p, h)
  \/ \E p \in ShPipelines, cls \in {"sock", "dec"} : ShRemoveType(p, cls)
  \/ \E p \in ShPipelines : ShDestroy(p)

\* One pipeline alone, built, finalized and taken apart by remove.
RmNext ==
  \/ \E h \in ShHandlers : ShAdd("p", h)
  \/ ShFinalize("p")
  \/ \E h \in ShHandlers : ShRemove("p", h)
  \/ \E cls \in {"sock", "dec"} : ShRemoveType("p", cls)

----------------------------------------------------------------------------
(* FixedLengthFrameDecoder (codec/FixedLengthFrameDecoder.h) *)

\* the bytes of the stream from position a to position b: the byte at
\* position i is named i
Stream(a, b) == [j \in 1..(b - a + 1) |-> a + j - 1]

FxIdle ==
  /\ length_ = 1
  /\ fxQueue = <<>>
  /\ fxFrames = <<>>
  /\ fxNeeded = 0
  /\ fxChunks = <<>>
  /\ fxSent = 0

\* FixedLengthFrameDecoder(length) for the lengths in use
FxInit ==
  /\ length_ \in 1..MaxFixedLen
  /\ fxQueue = <<>>
  /\ fxFrames = <<>>
  /\ fxNeeded = 0
  /\ fxChunks = <<>>
  /\ fxSent = 0

\* decode that waits for more than length bytes
fixedDecodeNeedsMore(q, length) ==
  IF Len(q) <= length
    THEN [got |-> FALSE, frame |-> <<>>, q |-> q, needed |-> length - Len(q)]
    ELSE [got |-> TRUE, frame |-> SubSeq(q, 1, length),
          q |-> SubSeq(q, length + 1, Len(q)), needed |-> 0]

\* FixedLengthFrameDecoder::decode (lines 41-48) with length_ = length:
\* short of length bytes it sets needed and returns null, else it splits
\* length bytes off the queue.
fixedDecode(q, length) ==
  IF Len(q) < length
    THEN [got |-> FALSE, frame |-> <<>>, q |-> q, needed |-> length - Len(q)]
    ELSE [got |-> TRUE, frame |-> SubSeq(q, 1, length),
          q |-> SubSeq(q, length + 1, Len(q)), needed |-> 0]

\* The caller of decode, ByteToMessageCodec::read: it calls decode with
\* needed = 0 again for as long as a frame comes back and fires each frame.
RECURSIVE FixedReadLoop(_, _, _)
FixedReadLoop(q, length, frames) ==
  LET r == fixedDecode(q, length)
  IN IF r.got THEN FixedReadLoop(r.q, length, Append(frames, r.frame))
     ELSE [q |-> r.q, frames |-> frames, needed |-> r.needed]

\* The transport delivers the next n bytes of the stream.
FxRead(n) ==
  /\ fxSent + n <= MaxFxBytes
  /\ LET r == FixedReadLoop(fxQueue \o Stream(fxSent + 1, fxSent + n), length_, fxFrames)
     IN /\ fxQueue' = r.q
        /\ fxFrames' = r.frames
        /\ fxNeeded' = r.needed
  /\ fxChunks' = Append(fxChunks, n)
  /\ fxSent' = fxSent + n
  /\ UNCHANGED length_
  /\ UNCHANGED notFx

FxNext == \E n \in 1..MaxChunk : FxRead(n)

----------------------------------------------------------------------------
(* The constructor of LengthFieldBasedFrameDecoder *)

CtIdle ==
  /\ ctOutcome = "none"
  /\ ctLength = 0
  /\ ctMaxFrame = 0
  /\ ctOffset = 0

\* the uint32_t arguments tried: the small ones and the largest
CtFrames == 0..MaxFrameLen \cup {U32Max}
CtOffsets == 0..MaxOffset \cup {U32Max}

\* LengthFieldBasedFrameDecoder(lengthFieldLength, maxFrameLength,
\* lengthFieldOffset, ...): the object exists when both CHECKs pass, else the
\* process aborts.
CtConstruct(lengthFieldLength, maxFrameLength, lengthFieldOffset) ==
  /\ ctOutcome = "none"
  /\ ctOutcome' = IF CtorChecks(lengthFieldLength, maxFrameLength, lengthFieldOffset)
                    THEN "constructed" ELSE "CHECK failed"
  /\ ctLength' = lengthFieldLength
  /\ ctMaxFrame' = maxFrameLength
  /\ ctOffset' = lengthFieldOffset
  /\ UNCHANGED notCt

CtNext ==
  \E lengthFieldLength \in FieldLengths, maxFrameLength \in CtFrames,
     lengthFieldOffset \in CtOffsets :
    CtConstruct(lengthFieldLength, maxFrameLength, lengthFieldOffset)

----------------------------------------------------------------------------
(* OutputBufferingHandler (channel/OutputBufferingHandler.h) *)

\* the results of a downstream write
ObResults == {"ok", "failed"}

ClosePending == "close() called while sends still pending"

ObInit ==
  /\ sends_ = <<>>
  /\ queueSends_ \in BOOLEAN
  /\ sharedPromise_ = 1
  /\ obScheduled = FALSE
  /\ obPromises = <<"pending">>
  /\ obCalls = <<>>
  /\ obDown = <<>>
  /\ obCloses = 0
  /\ obLast = <<>>

ObIdle ==
  /\ sends_ = <<>>
  /\ queueSends_ = TRUE
  /\ sharedPromise_ = 1
  /\ obScheduled = FALSE
  /\ obPromises = <<"pending">>
  /\ obCalls = <<>>
  /\ obDown = <<>>
  /\ obCloses = 0
  /\ obLast = <<>>

\* A mutant of prependChain: the buffer goes in front of the chain.
prependChainFront(chain, buf) == <<buf>> \o chain

\* sends_->prependChain(buf), called on the head of the circular chain: the
\* buffer is linked in before the head, which is the chain's end.
prependChain(chain, buf) == Append(chain, buf)

\* OutputBufferingHandler::write with queueSends_ set: the buffer is chained
\* to sends_, the loop callback is scheduled with the first one, and the
\* eventual returned is one of sharedPromise_.
ObWrite(buf) ==
  /\ queueSends_
  /\ Len(obCalls) < MaxObWrites
  /\ IF sends_ = <<>>
       THEN /\ sends_' = <<buf>>
            /\ obScheduled' = TRUE
            /\ obLast' = <<"runInLoop", "getFuture">>
       ELSE /\ sends_' = prependChain(sends_, buf)
            /\ obScheduled' = obScheduled
            /\ obLast' = <<"prependChain", "getFuture">>
  /\ obCalls' = Append(obCalls, [buf |-> buf, promise |-> sharedPromise_, down |-> 0])
  /\ UNCHANGED <<queueSends_, sharedPromise_, obPromises, obDown, obCloses>>
  /\ UNCHANGED notOb

\* OutputBufferingHandler::write with queueSends_ clear: the buffer is fired
\* downstream and the downstream eventual is returned.
ObWriteThrough(buf) ==
  /\ ~queueSends_
  /\ Len(obCalls) < MaxObWrites
  /\ obDown' = Append(obDown, [bufs |-> <<buf>>, result |-> "pending", promise |-> 0])
  /\ obCalls' = Append(obCalls, [buf |-> buf, promise |-> 0, down |-> Len(obDown) + 1])
  /\ obLast' = <<"fireWrite">>
  /\ UNCHANGED <<sends_, queueSends_, sharedPromise_, obScheduled, obPromises, obCloses>>
  /\ UNCHANGED notOb

\* OutputBufferingHandler::runLoopCallback, run by the event loop once for
\* each runInLoop: sharedPromise_ is swapped with a new one, sends_ is fired
\* downstream, and the continuation holds the promise swapped out.
ObRunLoopCallback ==
  /\ obScheduled
  /\ obScheduled' = FALSE
  /\ obPromises' = Append(obPromises, "pending")
  /\ sharedPromise_' = Len(obPromises) + 1
  /\ obDown' = Append(obDown, [bufs |-> sends_, result |-> "pending",
                               promise |-> sharedPromise_])
  /\ sends_' = <<>>
  /\ obLast' = <<"swap", "fireWrite">>
  /\ UNCHANGED <<queueSends_, obCalls, obCloses>>
  /\ UNCHANGED notOb

\* The eventual of the downstream write d completes; the continuation of
\* runLoopCallback hands the result to the promise it holds.
ObDownCompletes(d, result) ==
  /\ d \in DOMAIN obDown
  /\ obDown[d].result = "pending"
  /\ obDown' = [obDown EXCEPT ![d].result = result]
  /\ obPromises' = IF obDown[d].promise = 0 THEN obPromises
                   ELSE [obPromises EXCEPT ![obDown[d].promise] = result]
  /\ obLast' = IF obDown[d].promise = 0 THEN <<>> ELSE <<"setTry">>
  /\ UNCHANGED <<sends_, queueSends_, sharedPromise_, obScheduled, obCalls, obCloses>>
  /\ UNCHANGED notOb

\* A mutant of close: the loop callback is left scheduled and sends_ kept.
ObCloseKeepsSends ==
  /\ obCloses < MaxObCloses
  /\ obPromises' = Append([obPromises EXCEPT ![sharedPromise_] = ClosePending],
                          "pending")
  /\ sharedPromise_' = Len(obPromises) + 1
  /\ obCloses' = obCloses + 1
  /\ obLast' = <<"setException", "fireClose">>
  /\ UNCHANGED <<sends_, obScheduled, queueSends_, obCalls, obDown>>
  /\ UNCHANGED notOb

\* OutputBufferingHandler::close: the loop callback is cancelled if it is
\* scheduled, sharedPromise_ is failed, sends_ is dropped, sharedPromise_ is
\* replaced by a new one and close is fired downstream.
ObClose ==
  /\ obCloses < MaxObCloses
  /\ obScheduled' = FALSE
  /\ obPromises' = Append([obPromises EXCEPT ![sharedPromise_] = ClosePending],
                          "pending")
  /\ sends_' = <<>>
  /\ sharedPromise_' = Len(obPromises) + 1
  /\ obCloses' = obCloses + 1
  /\ obLast' = (IF obScheduled THEN <<"cancelLoopCallback">> ELSE <<>>)
                 \o <<"setException", "reset", "fireClose">>
  /\ UNCHANGED <<queueSends_, obCalls, obDown>>
  /\ UNCHANGED notOb

ObNext ==
  \/ \E buf \in Bufs : ObWrite(buf)
  \/ \E buf \in Bufs : ObWriteThrough(buf)
  \/ ObRunLoopCallback
  \/ \E d \in DOMAIN obDown, result \in ObResults : ObDownCompletes(d, result)
  \/ ObClose

----------------------------------------------------------------------------
(* Specifications: one per component, the others idle *)

InitSrv == SrvInit /\ CliIdle /\ PlIdle /\ DecIdle /\ SockIdle /\ FlowIdle /\ WrIdle /\ CodelIdle /\ MtIdle /\ EbIdle /\ BtIdle /\ ShIdle /\ FxIdle /\ CtIdle /\ ObIdle
SpecSrv == InitSrv /\ [][SrvNext]_vars

InitCli == CliInit /\ SrvIdle /\ PlIdle /\ DecIdle /\ SockIdle /\ FlowIdle /\ WrIdle /\ CodelIdle /\ MtIdle /\ EbIdle /\ BtIdle /\ ShIdle /\ FxIdle /\ CtIdle /\ ObIdle
SpecCli == InitCli /\ [][CliNext]_vars

InitPl == PlInit /\ SrvIdle /\ CliIdle /\ DecIdle /\ SockIdle /\ FlowIdle /\ WrIdle /\ CodelIdle /\ MtIdle /\ EbIdle /\ BtIdle /\ ShIdle /\ FxIdle /\ CtIdle /\ ObIdle
SpecPl == InitPl /\ [][PlNext]_vars

InitLife == LifeInit /\ SrvIdle /\ CliIdle /\ DecIdle /\ SockIdle /\ FlowIdle /\ WrIdle /\ CodelIdle /\ MtIdle /\ EbIdle /\ BtIdle /\ ShIdle /\ FxIdle /\ CtIdle /\ ObIdle
SpecLife == InitLife /\ [][LifeNext]_vars

InitDec == DecInit /\ SrvIdle /\ CliIdle /\ PlIdle /\ SockIdle /\ FlowIdle /\ WrIdle /\ CodelIdle /\ MtIdle /\ EbIdle /\ BtIdle /\ ShIdle /\ FxIdle /\ CtIdle /\ ObIdle
SpecDec == InitDec /\ [][DecNext]_vars

InitSock == SockInit /\ SrvIdle /\ CliIdle /\ PlIdle /\ DecIdle /\ FlowIdle /\ WrIdle /\ CodelIdle /\ MtIdle /\ EbIdle /\ BtIdle /\ ShIdle /\ FxIdle /\ CtIdle /\ ObIdle
SpecSock == InitSock /\ [][SockNext]_vars

InitWr == SockInit /\ WrIdle /\ SrvIdle /\ CliIdle /\ PlIdle /\ DecIdle /\ FlowIdle /\ CodelIdle /\ MtIdle /\ EbIdle /\ BtIdle /\ ShIdle /\ FxIdle /\ CtIdle /\ ObIdle
SpecWr == InitWr /\ [][WrNext]_vars

InitCodel ==
  CodelInit /\ SrvIdle /\ CliIdle /\ PlIdle /\ DecIdle /\ SockIdle /\ WrIdle /\ FlowIdle /\ MtIdle /\ EbIdle /\ BtIdle /\ ShIdle /\ FxIdle /\ CtIdle /\ ObIdle
SpecCodel == InitCodel /\ [][CodelNext]_vars

InitFlow == FlowInit /\ SrvIdle /\ CliIdle /\ DecIdle /\ SockIdle /\ WrIdle /\ CodelIdle /\ MtIdle /\ EbIdle /\ BtIdle /\ ShIdle /\ FxIdle /\ CtIdle /\ ObIdle
SpecFlow == InitFlow /\ [][FlowNext]_vars

InitMt ==
  CodelInit /\ MtIdle /\ SrvIdle /\ CliIdle /\ PlIdle /\ DecIdle /\ SockIdle /\ WrIdle /\ FlowIdle /\ EbIdle /\ BtIdle /\ ShIdle /\ FxIdle /\ CtIdle /\ ObIdle
SpecMt == InitMt /\ [][MtNext]_vars

InitEb ==
  EbIdle /\ SrvIdle /\ CliIdle /\ PlIdle /\ DecIdle /\ SockIdle /\ WrIdle /\ FlowIdle /\ CodelIdle /\ MtIdle /\ BtIdle /\ ShIdle /\ FxIdle /\ CtIdle /\ ObIdle
SpecEb == InitEb /\ [][EbNext]_vars

InitBt ==
  BtInit /\ SrvIdle /\ CliIdle /\ PlIdle /\ DecIdle /\ SockIdle /\ WrIdle /\ FlowIdle /\ CodelIdle /\ MtIdle /\ EbIdle /\ ShIdle /\ FxIdle /\ CtIdle /\ ObIdle
SpecBt == InitBt /\ [][BtNext]_vars

InitSh ==
  ShIdle /\ SrvIdle /\ CliIdle /\ PlIdle /\ DecIdle /\ SockIdle /\ WrIdle /\ FlowIdle /\ CodelIdle /\ MtIdle /\ EbIdle /\ BtIdle /\ FxIdle /\ CtIdle /\ ObIdle
SpecSh == InitSh /\ [][ShNext]_vars
SpecRm == InitSh /\ [][RmNext]_vars

InitFx ==
  FxInit /\ SrvIdle /\ CliIdle /\ PlIdle /\ DecIdle /\ SockIdle /\ WrIdle /\ FlowIdle /\ CodelIdle /\ MtIdle /\ EbIdle /\ BtIdle /\ ShIdle /\ CtIdle /\ ObIdle
SpecFx == InitFx /\ [][FxNext]_vars

InitCt ==
  CtIdle /\ SrvIdle /\ CliIdle /\ PlIdle /\ DecIdle /\ SockIdle /\ WrIdle /\ FlowIdle /\ CodelIdle /\ MtIdle /\ EbIdle /\ BtIdle /\ ShIdle /\ FxIdle /\ ObIdle
SpecCt == InitCt /\ [][CtNext]_vars

InitWrap == WrapInit /\ CliIdle /\ PlIdle /\ DecIdle /\ SockIdle /\ FlowIdle /\ WrIdle /\ CodelIdle /\ MtIdle /\ EbIdle /\ BtIdle /\ ShIdle /\ FxIdle /\ CtIdle /\ ObIdle
SpecWrap == InitWrap /\ [][WrapNext]_vars

InitOb ==
  ObInit /\ SrvIdle /\ CliIdle /\ PlIdle /\ DecIdle /\ SockIdle /\ WrIdle /\ FlowIdle /\ CodelIdle /\ MtIdle /\ EbIdle /\ BtIdle /\ ShIdle /\ FxIdle /\ CtIdle
SpecOb == InitOb /\ [][ObNext]_vars

----------------------------------------------------------------------------
(* Claims about the server dispatchers *)

\* C1: a PipelinedServerDispatcher fires the responses as writes in request
\* arrival order whatever the order in which the service calls complete: the
\* k-th write is the response of the k-th request read, every written
\* request's service call has completed successfully, and so nothing is
\* written while the oldest unwritten request is still pending.
C1_WritesInArrivalOrder ==
  srvKind = "pipelined" =>
    /\ Len(srvWrites) <= Len(srvArrived)
    /\ \A k \in 1..Len(srvWrites) :
         /\ srvWrites[k] = ServiceResp(srvArrived[k])
         /\ k \in Range(srvCompleted)
         /\ k \notin srvFailed
    /\ (\A k \in 1..Len(srvArrived) :
          k \in Range(srvCompleted) \ srvFailed) =>
            Len(srvWrites) = Len(srvArrived)

\* C1 witness: three requests with different payloads completed in the order
\* r2, r3, r1 and all three responses have been written.
C1_Witness ==
  /\ srvKind = "pipelined"
  /\ srvCompleted = <<2, 3, 1>>
  /\ srvFailed = {}
  /\ Len(srvWrites) = 3
  /\ srvArrived[1] # srvArrived[2]

\* C7: whenever the service's eventual of a request has failed, the server
\* dispatcher has called fireWriteException on its context.
C7_FailureFiresWriteException ==
  srvFailed # {} => srvWriteExc >= 1

----------------------------------------------------------------------------
(* Claims about the client dispatchers *)

FulfilledBy(k) == cliFutures[k] = <<"value", cliReads[k]>>

\* C3: a SerialClientDispatcher has at most one request in flight.  A call
\* while the slot is full is a failed precondition and writes nothing (every
\* request written has its own promise, and no two are pending); a read
\* fulfils the promise in the slot and clears it, so the k-th response read
\* fulfils the eventual of the k-th call, each exactly once.
C3_SerialOneInFlight ==
  cliKind = "serial" /\ cliState # "destroyed" =>
    /\ Len(p_) <= 1
    /\ Len(cliWrites) = Len(cliFutures)
    /\ Len(cliReads) <= Len(cliFutures)
    /\ Len(cliFutures) <= Len(cliReads) + 1
    /\ \A k \in DOMAIN cliFutures :
         /\ (k <= Len(cliReads)) => FulfilledBy(k) /\ cliSets[k] = 1
         /\ (k > Len(cliReads)) =>
               cliFutures[k] = "pending" /\ cliSets[k] = 0 /\ p_ = <<k>>
    /\ (cliFault = "CHECK(!p_)") => Len(p_) = 1
    /\ (Len(cliFutures) = Len(cliReads)) => p_ = <<>>

\* C3 witness: two requests were answered in turn by different responses, a
\* third is in flight, and a fourth call was refused.
C3_Witness ==
  /\ cliKind = "serial"
  /\ cliFault = "CHECK(!p_)"
  /\ Len(cliReads) = 2
  /\ cliReads[1] # cliReads[2]
  /\ Len(cliWrites) = 3

\* C4: on a PipelinedClientDispatcher on which no read arrived with an empty
\* queue, the k-th response read fulfils the eventual of the k-th call, no
\* eventual is completed more than once, and the deque holds exactly the
\* promises of the calls not yet answered, oldest first.
C4_PipelinedFifo ==
  cliKind = "pipelined" /\ cliState \in {"open", "closed"} =>
    /\ Len(cliReads) <= Len(cliFutures)
    /\ Len(p_) = Len(cliFutures) - Len(cliReads)
    /\ \A i \in DOMAIN p_ : p_[i] = Len(cliReads) + i
    /\ \A k \in DOMAIN cliFutures :
         /\ cliSets[k] <= 1
         /\ (k <= Len(cliReads)) => FulfilledBy(k) /\ cliSets[k] = 1
         /\ (k > Len(cliReads)) => cliFutures[k] = "pending"

\* C4 witness: three calls were made before any response; two responses with
\* different values have been read and one promise is still queued.
C4_Witness ==
  /\ cliKind = "pipelined"
  /\ Len(cliFutures) = 3
  /\ Len(cliReads) = 2
  /\ cliReads[1] # cliReads[2]
  /\ Len(p_) = 1
  /\ cliState = "open"

\* C8: when a client dispatcher is closed or destroyed, every eventual that
\* was outstanding is completed with a failure and the dispatcher holds no
\* promise any more.
C8_PendingFailedAtShutdown ==
  [][(cliState = "open" /\ cliState' \in {"closed", "destroyed"}) =>
       /\ p_' = <<>>
       /\ \A k \in DOMAIN cliFutures :
            cliFutures[k] = "pending" => cliFutures'[k] = "broken"]_vars

----------------------------------------------------------------------------
(* Claims about the pipeline *)

Reverse(seq) == [i \in 1..Len(seq) |-> seq[Len(seq) + 1 - i]]

InCtxsOfAll == SelectSeq(ctxs_, LAMBDA c : InCapable(ctxTab[c].cls))
OutCtxsOfAll == SelectSeq(ctxs_, LAMBDA c : OutCapable(ctxTab[c].cls))

\* The contexts visited from c along nextIn_ (nextOut_), c first; the walk
\* stops at a null link, or after fuel steps when it meets none.
RECURSIVE WalkIn(_, _)
WalkIn(c, fuel) ==
  IF c = Null THEN [path |-> <<>>, ended |-> TRUE]
  ELSE IF fuel = 0 THEN [path |-> <<>>, ended |-> FALSE]
  ELSE LET rest == WalkIn(ctxTab[c].nextIn_, fuel - 1)
       IN [path |-> <<c>> \o rest.path, ended |-> rest.ended]

RECURSIVE WalkOut(_, _)
WalkOut(c, fuel) ==
  IF c = Null THEN [path |-> <<>>, ended |-> TRUE]
  ELSE IF fuel = 0 THEN [path |-> <<>>, ended |-> FALSE]
  ELSE LET rest == WalkOut(ctxTab[c].nextOut_, fuel - 1)
       IN [path |-> <<c>> \o rest.path, ended |-> rest.ended]

FrontTyped ==
  inCtxs_ # <<>> /\ HandlerClass[ctxTab[inCtxs_[1]].cls].rin = plR
BackTyped ==
  outCtxs_ # <<>> /\ HandlerClass[ctxTab[outCtxs_[Len(outCtxs_)]].cls].win = plW

\* C2 as stated: after any adds and a finalize(), the walk from front along
\* nextIn visits exactly the IN-capable contexts in all-list order, the walk
\* from back along nextOut visits exactly the OUT-capable contexts in the
\* reverse order, and both end at a null link.
C2_Original ==
  plStatus = "finalized" =>
    /\ WalkIn(front_, Len(ctxs_) + 1) = [path |-> InCtxsOfAll, ended |-> TRUE]
    /\ WalkOut(back_, Len(ctxs_) + 1) =
         [path |-> Reverse(OutCtxsOfAll), ended |-> TRUE]

\* C2 amended: after any adds and a finalize() that returned, the chain of
\* nextIn links from the first IN-capable context visits exactly the
\* IN-capable contexts in all-list order and the chain of nextOut links from
\* the last OUT-capable context visits exactly the OUT-capable contexts in the
\* reverse order, both ending at a null link; front is that first IN context
\* when its Rin is the pipeline's R and back is that last OUT context when its
\* Win is the pipeline's W, and otherwise (also when the sublist is empty)
\* front, respectively back, is null.
C2_ChainsFollowAllList ==
  plStatus = "finalized" =>
    /\ inCtxs_ = InCtxsOfAll
    /\ outCtxs_ = OutCtxsOfAll
    /\ front_ = (IF FrontTyped THEN inCtxs_[1] ELSE Null)
    /\ back_ = (IF BackTyped THEN outCtxs_[Len(outCtxs_)] ELSE Null)
    /\ WalkIn(IF inCtxs_ = <<>> THEN Null ELSE inCtxs_[1], Len(ctxs_) + 1) =
         [path |-> InCtxsOfAll, ended |-> TRUE]
    /\ WalkOut(IF outCtxs_ = <<>> THEN Null ELSE outCtxs_[Len(outCtxs_)],
               Len(ctxs_) + 1) =
         [path |-> Reverse(OutCtxsOfAll), ended |-> TRUE]

\* C2 witness: a finalized pipeline built with addFront and addBack whose
\* all-list holds an IN-only, an OUT-only and a BOTH context, with front and
\* back both set.
C2_Witness ==
  /\ plStatus = "finalized"
  /\ Len(ctxs_) = 3
  /\ ctxs_ # <<1, 2, 3>>
  /\ {HandlerClass[ctxTab[c].cls].dir : c \in Range(ctxs_)} = {"IN", "OUT", "BOTH"}
  /\ front_ # Null
  /\ back_ # Null
  /\ Len(inCtxs_) = 2
  /\ Len(outCtxs_) = 2

\* C9: while a call on a context (a fire operation or a link operation) is in
\* progress the pipeline is not destroyed and no handler has been detached,
\* also when no user holds the pipeline any more.
C9_AliveDuringCall ==
  plCalls # <<>> => ~plDestroyed /\ detachLog = <<>>

\* C9 witness: the last user has dropped the pipeline while a call on one of
\* its contexts is in progress, and the pipeline still exists.
C9_Witness ==
  /\ plOwners = 0
  /\ plCalls # <<>>
  /\ ~plDestroyed
  /\ ctxs_ # <<>>

PosIn(seq, x) == CHOOSE i \in DOMAIN seq : seq[i] = x

C5_Total == decLenVal + lengthAdjustment_ + lengthFieldOffset_ + lengthFieldLength_

C5_FrameFits == Len(decWire) = C5_Total /\ C5_Total <= maxFrameLength_

\* What C5 promises of the frame on the wire: no frame is emitted before the
\* last byte has arrived, no exception at any time, and once the last byte
\* has arrived exactly one frame has been emitted, the encoding without its
\* first strip bytes, and the queue is empty.
C5_Delivered ==
  /\ decThrown = "none"
  /\ decExc = <<>>
  /\ decPos < Len(decWire) => decFrames = <<>>
  /\ decPos = Len(decWire) =>
       /\ decFrames = <<SubSeq(decWire, initialBytesToStrip_ + 1, Len(decWire))>>
       /\ decQueue = <<>>

\* C5: for every frame that fits within maxFrame and has more than strip
\* bytes to remove the first strip bytes from, and every cut of its encoding
\* into chunks, the decoder emits exactly one frame, the encoding without its
\* first strip bytes, emits nothing before the last byte has arrived, raises
\* no read-exception and leaves the queue empty.
C5_RoundTrip ==
  (C5_FrameFits /\ initialBytesToStrip_ < C5_Total) => C5_Delivered

\* The same for the frames of at most INT_MAX bytes: this much holds.
C5_RoundTripBelowIntMax ==
  (C5_FrameFits /\ initialBytesToStrip_ < C5_Total /\ C5_Total <= IntMax)
    => C5_Delivered

\* C6: when every close and writeException call that has reached the socket
\* handler came while the write flags did not request write-only shutdown,
\* and the pipeline had its manager when the first of them came, the
\* manager's deletePipeline has been invoked exactly once, during the first
\* of these calls; and whatever the flags, it is never invoked twice.
C6_DeleteOnce ==
  /\ mgrDeletes <= 1
  /\ (/\ sockLog # <<>>
      /\ \A i \in DOMAIN sockLog : ~sockLog[i].wso
      /\ sockLog[1].mgr)
       => mgrDeletes = 1 /\ sockDeleteDuring = 1

\* C6 witness: three such calls, close and writeException both, have reached
\* the handler of a pipeline with a manager, the manager has not destroyed
\* the pipeline, and it was told once.
C6_Witness ==
  /\ Len(sockLog) = 3
  /\ \A i \in DOMAIN sockLog : ~sockLog[i].wso /\ sockLog[i].mgr
  /\ \E i, j \in DOMAIN sockLog :
       sockLog[i].op = "close" /\ sockLog[j].op = "writeException"
  /\ sockAlive
  /\ mgrDeletes = 1

----------------------------------------------------------------------------
(* Claims about finalize's errors and the pipeline's entry points *)

\* the handler classes of the pipeline, in all-list order
HandlerSeq == [i \in DOMAIN ctxs_ |-> ctxTab[ctxs_[i]].cls]
InSeq == SelectSeq(HandlerSeq, InCapable)
OutSeq == SelectSeq(HandlerSeq, OutCapable)

\* two adjacent handlers of the IN list with a.Ro # b.Ri
InMismatch ==
  \E i \in 1..(Len(InSeq) - 1) :
    HandlerClass[InSeq[i]].rout # HandlerClass[InSeq[i + 1]].rin

\* two adjacent handlers of the OUT list, the later one's Wo differing from
\* the write-input type of the one before it, its next outbound node
OutMismatch ==
  \E i \in 2..Len(OutSeq) :
    HandlerClass[OutSeq[i]].wout # HandlerClass[OutSeq[i - 1]].win

\* C11: finalize() has thrown invalid_argument exactly when two adjacent
\* handlers of the IN list or of the OUT list mismatch, and has succeeded
\* when every adjacent pair matches: its outcome is a function of the handler
\* sequence alone (not of R, W or of how the sequence was built).
C11_FinalizeFailsOnMismatch ==
  plStatus # "building" =>
    plStatus = (IF InMismatch \/ OutMismatch THEN "failed" ELSE "finalized")

\* C11 witness: finalize has failed on three handlers whose IN list matches
\* throughout and whose OUT list has a mismatching pair.
C11_Witness ==
  /\ plStatus = "failed"
  /\ Len(ctxs_) = 3
  /\ Len(InSeq) >= 2
  /\ ~InMismatch
  /\ OutMismatch

\* the entry point just called belongs to a chain that has no handler at all
OnEmptyChain(call) ==
  \/ call.ev \in InEvents /\ InSeq = <<>>
  \/ call.ev \in OutEvents /\ OutSeq = <<>>

\* C12: on a finalized pipeline without inbound handlers read, readEOF and
\* readException, and on one without outbound handlers write, writeException
\* and close, end with invalid_argument, invoke no handler and leave the
\* pipeline as it was.
C12_EmptyChainThrows ==
  [][(/\ plStatus = "finalized"
      /\ flCall'.kind = "pipeline"
      /\ flCall'.ev \notin {"transportActive", "transportInactive"}
      /\ OnEmptyChain(flCall'))
       => (/\ flResult' = "invalid_argument"
           /\ flLog' = <<>>
           /\ plVars' = plVars)]_vars

\* C12 witness: readEOF has been called on a finalized pipeline that has
\* handlers, none of them inbound, and ended with invalid_argument.
C12_Witness ==
  /\ plStatus = "finalized"
  /\ ctxs_ # <<>>
  /\ InSeq = <<>>
  /\ flCall.kind = "pipeline"
  /\ flCall.ev = "readEOF"
  /\ flResult = "invalid_argument"

TransportCallOnEmptyIn ==
  /\ plStatus = "finalized"
  /\ flCall.kind = "pipeline"
  /\ flCall.ev \in {"transportActive", "transportInactive"}
  /\ InSeq = <<>>

FireOnLast(call) ==
  /\ call.kind = "fire"
  /\ \/ call.ev \in InEvents /\ InCtxsOfAll # <<>>
        /\ call.ctx = InCtxsOfAll[Len(InCtxsOfAll)]
     \/ call.ev \in OutEvents /\ OutCtxsOfAll # <<>>
        /\ call.ctx = OutCtxsOfAll[1]

\* C14: in a finalized pipeline a fire method called on the last context of
\* its chain invokes no handler; the inbound ones return normally, the
\* outbound ones return an eventual that is already successful.
C14_FireAtChainEnd ==
  (plStatus = "finalized" /\ FireOnLast(flCall)) =>
    /\ flLog = <<>>
    /\ flCall.ev \in InEvents => flResult = "returned"
    /\ flCall.ev \in OutEvents => flResult = "future ok"

\* C14 witness: fireWrite has been called on the context that ends the
\* outbound chain of a finalized pipeline of three handlers, and returned a
\* successful eventual.
C14_Witness ==
  /\ plStatus = "finalized"
  /\ Len(ctxs_) = 3
  /\ Len(OutCtxsOfAll) >= 2
  /\ FireOnLast(flCall)
  /\ flCall.ev = "write"
  /\ flResult = "future ok"

\* every handler of the chain the call goes through passes it on unchanged:
\* the default implementations do, and read and write do in the handlers
\* that are HandlerAdapters
PassThrough(call) ==
  /\ call.ev = "read" =>
       \A i \in DOMAIN InSeq : HandlerClass[InSeq[i]].rin = HandlerClass[InSeq[i]].rout
  /\ call.ev = "write" =>
       \A i \in DOMAIN OutSeq : HandlerClass[OutSeq[i]].win = HandlerClass[OutSeq[i]].wout

\* C15: in a finalized pipeline of pass-through handlers whose entry point
\* accepts the call (front_, for an outbound call back_, is set), an inbound
\* call invokes every inbound handler once, in all-list order, and an
\* outbound call every outbound handler once, in reverse all-list order,
\* each with the message the pipeline was given.
C15_PassThroughOrder ==
  (/\ plStatus = "finalized"
   /\ flCall.kind = "pipeline"
   /\ PassThrough(flCall)
   /\ (IF flCall.ev \in InEvents THEN front_ ELSE back_) # Null)
    => flLog =
         (IF flCall.ev \in InEvents
            THEN [i \in DOMAIN InCtxsOfAll |->
                    [ctx |-> InCtxsOfAll[i], ev |-> flCall.ev, msg |-> flCall.msg]]
            ELSE [i \in DOMAIN OutCtxsOfAll |->
                    [ctx |-> Reverse(OutCtxsOfAll)[i], ev |-> flCall.ev,
                     msg |-> flCall.msg]])

\* C15 witness: write(y) has gone through a finalized pipeline of three
\* pass-through handlers built with addFront, the handler added first
\* receiving it first.
C15_Witness ==
  /\ plStatus = "finalized"
  /\ ctxs_ = <<3, 2, 1>>
  /\ flCall.kind = "pipeline"
  /\ flCall.ev = "write"
  /\ PassThrough(flCall)
  /\ Len(flLog) = 3
  /\ flLog[1].ctx = 1
  /\ flLog[3].msg = flCall.msg

----------------------------------------------------------------------------
(* Claims about the multiplexed server dispatcher *)

\* the requests whose service call completed with a response, in completion
\* order
Succeeded == SelectSeq(srvCompleted, LAMBDA k : k \notin srvFailed)

\* C16: a MultiplexServerDispatcher fires each response when its own service
\* call completes: the writes are the responses of the completed calls in
\* completion order, whatever the arrival order, and no request completes,
\* or is written, twice.
C16_WritesInCompletionOrder ==
  srvKind = "multiplex" =>
    /\ srvWrites = [i \in DOMAIN Succeeded |-> ServiceResp(srvArrived[Succeeded[i]])]
    /\ \A i, j \in DOMAIN srvCompleted :
         srvCompleted[i] = srvCompleted[j] => i = j

\* C16 witness: three requests, the first two with different payloads,
\* completed in the order r2, r3, r1 and three responses were written, the
\* first being the second request's.
C16_Witness ==
  /\ srvKind = "multiplex"
  /\ srvCompleted = <<2, 3, 1>>
  /\ srvFailed = {}
  /\ srvArrived[1] # srvArrived[2]
  /\ Len(srvWrites) = 3
  /\ srvWrites[1] = ServiceResp(srvArrived[2])

----------------------------------------------------------------------------
(* Claims about frames larger than maxFrame *)

\* the step in which the length field of the first frame becomes readable,
\* the frame's computed length being larger than maxFrame
C17_OversizedFieldArrives ==
  /\ decPos < lengthFieldEndOffset_
  /\ decPos' >= lengthFieldEndOffset_
  /\ C5_Total > maxFrameLength_

\* what C17 promises of that step: one "frame larger than maxFrame"
\* read-exception, nothing thrown, no frame, and of the bytes that have
\* arrived only those beyond the frame's length are left in the queue
C17_Discarded ==
  /\ decThrown' = "none"
  /\ decExc' = <<"Frame larger than maxFrameLength">>
  /\ decFrames' = <<>>
  /\ Len(decQueue') = (IF decPos' > C5_Total THEN decPos' - C5_Total ELSE 0)

\* C17: as soon as the length field of a frame whose length v + adjust +
\* offset + L exceeds maxFrame is readable, decode raises exactly one "frame
\* larger than maxFrame" read-exception, emits no frame and removes the
\* frame's length in bytes from the queue, or all the bytes when there are
\* fewer.
C17_OversizedDiscarded ==
  [][C17_OversizedFieldArrives => C17_Discarded]_vars

\* The same when the whole oversized frame is in the queue at that moment:
\* this much holds.
C17_OversizedDiscardedWhenPresent ==
  [][(C17_OversizedFieldArrives /\ decPos' >= C5_Total) => C17_Discarded]_vars

----------------------------------------------------------------------------
(* Claims about the socket handler's write and its read callback *)

\* what C18 promises of a write call with the non-null buffer buf, the k-th
\* write call made
C18_WriteCall(buf, k) ==
  /\ manager_ =>
       /\ wrTrace'[1] = "manager.refreshTimeout"
       /\ \A i \in 2..Len(wrTrace') : wrTrace'[i] # "manager.refreshTimeout"
  /\ ~good(socket_) =>
       /\ wrFutures'[k] = <<"failed", "NOT_OPEN">>
       /\ wrSubmits' = wrSubmits
       /\ wrPending' = wrPending
  /\ good(socket_) =>
       /\ wrSubmits' = Append(wrSubmits, [call |-> k, buf |-> buf,
                                          flags |-> writeFlags_])
       /\ wrPending' = Append(wrPending, k)
       /\ wrFutures'[k] = <<"pending">>

\* what C18 promises of the eventual of the k-th write call, once returned:
\* it is incomplete exactly while the transport holds its callback, leaves
\* that state only through the callback, with success on writeSuccess and
\* the transport's exception on writeErr, and does not change afterwards
C18_Completion(k) ==
  /\ wrFutures[k] = <<"pending">> <=> \E i \in DOMAIN wrPending : wrPending[i] = k
  /\ (wrFutures[k] = <<"pending">> /\ wrFutures'[k] # <<"pending">>) =>
       \/ WriteSuccess /\ wrFutures'[k] = <<"ok">>
       \/ \E ex \in TransportErrs : WriteErr(ex) /\ wrFutures'[k] = <<"failed", ex>>
  /\ wrFutures[k] # <<"pending">> => wrFutures'[k] = wrFutures[k]

\* C18: AsyncSocketHandler::write with a non-null buffer refreshes the idle
\* timeout before anything else; on a transport that is not good it returns
\* an eventual failed with the socket-closed error and submits nothing; on a
\* good one it submits the buffer once, and the eventual stays incomplete
\* until the transport's callback completes it, with success on
\* write-success and with the transport's exception on write-error.
C18_Write ==
  [][/\ \A buf \in Bufs : SockWrite(buf) => C18_WriteCall(buf, Len(wrFutures) + 1)
     /\ \A k \in DOMAIN wrFutures : C18_Completion(k)]_vars

\* C18 witness: with a manager set, a first write was submitted and failed by
\* the transport with TIMED_OUT, and a second write, made after the
\* transport closed, was refused with the socket-closed error and not
\* submitted.
C18_Witness ==
  /\ wrFutures = <<<<"failed", "TIMED_OUT">>, <<"failed", "NOT_OPEN">>>>
  /\ Len(wrSubmits) = 1
  /\ wrSubmits[1].call = 1
  /\ wrTrace = <<"manager.refreshTimeout", "socket.good">>

\* the exit paths of the socket handler: close without write-only shutdown
\* and writeException (both through shutdown), transportInactive,
\* detachEventBase, and detachPipeline followed by the destructor
C19_ExitPath ==
  \/ \E r \in Reactions : SockClose(r) /\ ~writeFlags_
  \/ \E r \in Reactions : SockWriteException(r)
  \/ \E r \in Reactions : SockTransportInactive(r)
  \/ \E r \in Reactions : SockDetachEventBase(r)
  \/ SockDestroy

\* C19: after any exit path of the socket handler the transport's read
\* callback is not this handler.
C19_ReadCallbackDetached ==
  [][C19_ExitPath => ~sockReadCB']_vars

\* C19 witness: the handler had its read callback on a good transport, which
\* then was given a full close: the callback is off and the transport closed.
C19_Witness ==
  /\ sockActives >= 1
  /\ sockLog # <<>>
  /\ sockLog[1].op = "close"
  /\ ~sockLog[1].wso
  /\ socket_ = "closed"
  /\ sockInactives >= 1
  /\ ~sockReadCB

----------------------------------------------------------------------------
(* Claims about the Codel detector *)

\* C20: with target 5 ms and interval 100 ms, overloaded(delay) returns false
\* for every delay of at most twice the target; and as long as every delay
\* given has been at most the target, the detector is not in the overloaded
\* state and has not returned true.
C20_NoShedBelowTarget ==
  /\ cdDelay <= 2 * FLAGS_codel_target_delay => ~cdRet
  /\ cdAllLow => ~overloaded_ /\ ~cdRet

\* C20 witness: the detector is overloaded, inside an interval whose minimum
\* so far is above the target, and the last sample, of exactly twice the
\* target and not the one that started the interval, was not shed.
C20_Witness ==
  /\ overloaded_
  /\ cdNow > FLAGS_codel_interval
  /\ cdNow < codelIntervalTime_
  /\ cdDelay = 2 * FLAGS_codel_target_delay
  /\ codelMinDelay_ > FLAGS_codel_target_delay
  /\ codelMinDelay_ < cdDelay
  /\ ~cdRet

\* the step is a call of overloaded that rolls the window over
C21_Rollover == codelIntervalTime_' # codelIntervalTime_

\* the step is a call of overloaded
C21_Sample == \E delay \in Delays, dt \in Advances : CodelOverloaded(delay, dt)

\* C21 as stated: at a rollover the overloaded state becomes true iff the
\* minimum delay of the window that ended exceeds the target; and every
\* sample given while the state is true, and not cleared by that sample's
\* rollover, is shed iff its delay exceeds twice the target.
C21_Original ==
  [][C21_Sample =>
       /\ C21_Rollover => (overloaded_' <=> cdWindowMin > FLAGS_codel_target_delay)
       /\ (overloaded_ /\ overloaded_') =>
            (cdRet' <=> cdDelay' > 2 * FLAGS_codel_target_delay)]_vars

\* C21 amended: at a rollover the overloaded state becomes true iff the
\* minimum delay of the window that ended exceeds the target; the sample
\* that rolls the window over is never shed; every other sample given while
\* the state is true is shed iff its delay exceeds twice the target.
C21_ShedWhileOverloaded ==
  [][C21_Sample =>
       /\ C21_Rollover =>
            /\ overloaded_' <=> cdWindowMin > FLAGS_codel_target_delay
            /\ ~cdRet'
       /\ (overloaded_ /\ ~C21_Rollover) =>
            /\ overloaded_'
            /\ cdRet' <=> cdDelay' > 2 * FLAGS_codel_target_delay]_vars

\* C21 witness: after a window whose samples were all above the target the
\* detector is overloaded and has shed a sample of more than twice the
\* target that was not the first of its window.
C21_Witness ==
  /\ overloaded_
  /\ cdRet
  /\ cdDelay > 2 * FLAGS_codel_target_delay
  /\ cdWindowMin > FLAGS_codel_target_delay
  /\ cdWindowMin < cdDelay
  /\ cdNow < codelIntervalTime_

----------------------------------------------------------------------------
(* Claims about the Codel detector called by several threads *)

\* the positions in mtLog of the rollovers
C22_Rolls == {i \in DOMAIN mtLog : mtLog[i].ev = "rollover"}

\* C22: with several threads in overloaded, each window is rolled over by one
\* thread only (a rollover's time is past the interval's end set by the
\* rollover before it), the minimum is reset once per window, and that reset
\* follows the rollover's updates: resets and rollovers alternate, the
\* constructor's reset first.
C22_OneRolloverOneReset ==
  /\ \A i, j \in C22_Rolls :
       i < j => mtLog[j].now > mtLog[i].now + FLAGS_codel_interval
  /\ \A i \in DOMAIN mtLog :
       mtLog[i].ev = (IF i % 2 = 1 THEN "reset" ELSE "rollover")

----------------------------------------------------------------------------
(* Claims about the EventBaseHandler *)

\* C23: every write or close that has returned had its downstream fireWrite
\* or fireClose run before, once, on the loop thread, whichever thread
\* called, and the eventual returned is the one that downstream call produced.
C23_BodyOnLoopThread ==
  \A i \in DOMAIN ebReturned :
    /\ \E j \in DOMAIN ebFired :
         /\ ebFired[j].n = ebReturned[i].n
         /\ ebFired[j].op = ebReturned[i].op
         /\ ebFired[j].thread = LoopThread
         /\ ebFired[j].fut = ebReturned[i].fut
    /\ Cardinality({j \in DOMAIN ebFired : ebFired[j].n = ebReturned[i].n}) = 1

\* a close called off the loop thread returned a failed eventual while a
\* write of the loop thread itself had returned too
C23_Witness ==
  /\ \E i \in DOMAIN ebReturned :
       /\ ebReturned[i].caller # LoopThread
       /\ ebReturned[i].op = "close"
       /\ ebReturned[i].fut[2] = "failed"
  /\ \E i \in DOMAIN ebReturned :
       ebReturned[i].caller = LoopThread /\ ebReturned[i].op = "write"

----------------------------------------------------------------------------
(* Claims about the client bootstrap *)

\* the positions in btLog of connect c's events of kind ev
C24_At(c, ev) == {i \in DOMAIN btLog : btLog[i].conn = c /\ btLog[i].ev = ev}

\* C24: on connect success the steps come in this order: the
\* session-established callback (only for a TLS socket whose session was not
\* resumed), the factory's newPipeline, transportActive on the new pipeline,
\* and last the fulfilment of the eventual with that pipeline; a pipeline held
\* by an eventual has received transportActive before.
C24_SuccessOrder ==
  \A c \in DOMAIN btConns :
    /\ \A e \in C24_At(c, "onEstablished") :
         /\ btConns[c].tls /\ ~btConns[c].reused
         /\ \A n \in C24_At(c, "newPipeline") : e < n
    /\ \A f \in C24_At(c, "setValue") :
         /\ \E n \in C24_At(c, "newPipeline") : n < f /\ btLog[n].p = btLog[f].p
         /\ \A n \in C24_At(c, "newPipeline"), a \in C24_At(c, "transportActive") : n < a
         /\ btLog[f].p # NoPipeline =>
              \E a \in C24_At(c, "transportActive") : a < f /\ btLog[a].p = btLog[f].p
    /\ btConns[c].fut[1] = "value" => C24_At(c, "setValue") # {}

\* a TLS connect whose session was not resumed had its callback fired and
\* its eventual fulfilled with a pipeline
C24_Witness ==
  \E c \in DOMAIN btConns :
    /\ btConns[c].fut = <<"value", c>>
    /\ C24_At(c, "onEstablished") # {}
    /\ C24_At(c, "transportActive") # {}

\* the eventual of every connect is completed once when the outcome is
\* reported and not before
C25_CompletedOnce ==
  \A c \in DOMAIN btConns :
    /\ btConns[c].completions = (IF btConns[c].outcome = "none" THEN 0 ELSE 1)
    /\ (btConns[c].fut[1] = "pending") = (btConns[c].outcome = "none")

\* a reported failure completes the eventual with the transport's exception;
\* no pipeline is created and no transportActive is fired for that connect
C25_FailureGivesException ==
  \A c \in DOMAIN btConns :
    btConns[c].outcome = "failure" =>
      /\ btConns[c].fut[1] = "exception" /\ btConns[c].fut[2] \in ConnectErrs
      /\ C24_At(c, "newPipeline") = {} /\ C24_At(c, "transportActive") = {}

\* C25 as stated: every connect eventual is completed exactly once when the
\* transport reports the outcome, with the pipeline pointer on success and
\* with the transport's exception on failure.
C25_Original ==
  /\ C25_CompletedOnce
  /\ C25_FailureGivesException
  /\ \A c \in DOMAIN btConns :
       btConns[c].outcome = "success" => btConns[c].fut[1] = "value"

\* C25, amended: every connect eventual is completed exactly once when the
\* transport reports the outcome: with the transport's exception on failure,
\* with the pipeline pointer on success while the bootstrap exists, and with
\* a broken-promise exception, no pipeline being created, on success after
\* the bootstrap was destroyed.
C25_CompletedOnceByOutcome ==
  /\ C25_CompletedOnce
  /\ C25_FailureGivesException
  /\ \A c \in DOMAIN btConns :
       btConns[c].outcome = "success" =>
         \/ btConns[c].fut[1] = "value" /\ C24_At(c, "newPipeline") # {}
         \/ /\ btConns[c].fut = <<"exception", "BrokenPromise">>
            /\ ~btAlive
            /\ C24_At(c, "newPipeline") = {}

\* one connect failed, another succeeded after the bootstrap was destroyed
C25_Witness ==
  /\ ~btAlive
  /\ \E c \in DOMAIN btConns : btConns[c].outcome = "failure"
  /\ \E c \in DOMAIN btConns :
       btConns[c].outcome = "success" /\ btConns[c].fut[1] = "exception"

----------------------------------------------------------------------------
(* Claims about remove and about handlers shared between pipelines *)

C26_Kept(seq, gone) == SelectSeq(seq, LAMBDA c : c \notin gone)

\* what a remove on pipeline p is to do when the contexts match are the ones
\* it names
C26_Removes(p, match) ==
  IF match = {}
    THEN /\ shThrown' = "invalid_argument"
         /\ shAll' = shAll /\ shIn' = shIn /\ shOut' = shOut
    ELSE /\ shThrown' = "none"
         /\ shAll' = [shAll EXCEPT ![p] = C26_Kept(shAll[p], match)]
         /\ shIn' = [shIn EXCEPT ![p] = C26_Kept(shIn[p], match)]
         /\ shOut' = [shOut EXCEPT ![p] = C26_Kept(shOut[p], match)]

C26_Of(p) == {shAll[p][i] : i \in DOMAIN shAll[p]}

\* C26: remove<H>() takes every context whose handler is of type H out of
\* the pipeline's lists, remove(h) exactly the contexts bound to h, the other
\* contexts keeping their order; with no such context the call fails with
\* invalid_argument and the all-, IN- and OUT-lists stay as they are.
C26_RemoveByTypeOrIdentity ==
  [][ /\ \A h \in ShHandlers :
           ShRemove("p", h) => C26_Removes("p", {c \in C26_Of("p") : shCtxs[c].h = h})
      /\ \A cls \in {"sock", "dec"} :
           ShRemoveType("p", cls) =>
             C26_Removes("p", {c \in C26_Of("p") : shCtxs[c].cls = cls})
    ]_vars

\* of three contexts added to one pipeline the middle one was removed and
\* the other two are left
C26_Witness ==
  /\ shGone = {}
  /\ shThrown = "none"
  /\ shAll["p"] = <<1, 3>>
  /\ shIn["p"] = <<1, 3>>
  /\ shOut["p"] = <<1>>
  /\ Len(shCtxs) = 3

\* the contexts attached to handler h
C29_Attached(h) == {c \in DOMAIN shCtxs : shCtxs[c].h = h /\ shCtxs[c].attached_}

\* C29: as long as handlers were only added and pipelines finalized, once or
\* repeatedly, a handler's attach count is the number of contexts attached to
\* it, getContext() gives the one context when the count is 1 and null when
\* the handler is attached in more than one place.
C29_CountIsAttachedContexts ==
  ~shDetached =>
    \A h \in ShHandlers :
      /\ shHs[h].attachCount_ = Cardinality(C29_Attached(h))
      /\ shHs[h].attachCount_ = 1 => getContext(shHs, h) \in C29_Attached(h)
      /\ shHs[h].attachCount_ > 1 => getContext(shHs, h) = Null

\* finalize has attached one handler in two pipelines and another in one
C29_Witness ==
  /\ ~shDetached
  /\ \E h \in ShHandlers :
       /\ shHs[h].attachCount_ = 2
       /\ {shCtxs[c].pl : c \in C29_Attached(h)} = ShPipelines
  /\ \E h \in ShHandlers : shHs[h].attachCount_ = 1

\* C30: whatever attaching and detaching a handler shared between pipelines
\* has seen, its context pointer is set whenever its attach count is 1, so
\* the CHECK of getContext() does not fail.
C30_CheckNeverFails ==
  \A h \in ShHandlers :
    /\ shHs[h].attachCount_ = 1 => shHs[h].ctx_ # Null
    /\ getContext(shHs, h) # CheckFailed

----------------------------------------------------------------------------
(* Claims about the FixedLengthFrameDecoder *)

\* C27: whatever the chunks, a decoder of length n has fired exactly the
\* consecutive n-byte slices of the bytes received; the bytes short of a
\* frame stay queued, and the last decode reported needed = n less the
\* number of bytes queued.
C27_FixedSlices ==
  /\ Len(fxFrames) = fxSent \div length_
  /\ \A i \in DOMAIN fxFrames :
       fxFrames[i] = Stream((i - 1) * length_ + 1, i * length_)
  /\ fxQueue = Stream(Len(fxFrames) * length_ + 1, fxSent)
  /\ fxChunks # <<>> => fxNeeded = length_ - Len(fxQueue)

\* A | BC | DEFG | HI with length 3 gave ABC, DEF, GHI
C27_Witness ==
  /\ length_ = 3
  /\ fxChunks = <<1, 2, 4, 2>>
  /\ fxFrames = <<<<1, 2, 3>>, <<4, 5, 6>>, <<7, 8, 9>>>>
  /\ fxQueue = <<>>

----------------------------------------------------------------------------
(* Claims about the constructor of LengthFieldBasedFrameDecoder *)

\* C28: every decoder the constructor lets through has its length field
\* inside the largest frame, lengthFieldOffset + lengthFieldLength <=
\* maxFrameLength as integers, also when maxFrameLength is below
\* lengthFieldLength; arguments that break it fail a CHECK.
C28_FieldWithinMaxFrame ==
  ctOutcome = "constructed" => ctOffset + ctLength <= ctMaxFrame

----------------------------------------------------------------------------
(* Claims about the pipelined server dispatcher's ids *)

\* C31: in the pipelined server dispatcher, ids not wrapping,
\* lastWrittenId_ is below requestId_, every buffered key lies strictly
\* between them, the map does not hold lastWrittenId_ + 1 once the drain
\* routine has returned, lastWrittenId_ has grown by one with each write, and
\* an id written is neither buffered nor pending again: it is written once.
C31_IdInvariants ==
  srvKind = "pipelined" =>
    /\ lastWrittenId_ < requestId_
    /\ \A k \in DOMAIN responses_ : lastWrittenId_ < k /\ k < requestId_
    /\ lastWrittenId_ + 1 \notin DOMAIN responses_
    /\ lastWrittenId_ = Len(srvWrites)
    /\ \A i \in DOMAIN srvWrites : srvWrites[i] = ServiceResp(srvArrived[i])
    /\ \A c \in srvPending : c.requestId > lastWrittenId_ /\ c.requestId \notin DOMAIN responses_

\* the first response was written while the third is buffered behind the
\* second, whose service call has not completed
C31_Witness ==
  /\ srvKind = "pipelined"
  /\ lastWrittenId_ = 1
  /\ DOMAIN responses_ = {3}
  /\ \E c \in srvPending : c.requestId = 2

\* the ids whose service call failed or has not completed
C32_Stuck == srvFailed \cup {c.requestId : c \in srvPending}

\* C32: in the pipelined server dispatcher no response of an id at or after
\* one whose service call failed or has not completed is written; the
\* responses of later requests that completed stay in the map, and no
\* writeException is fired.
C32_NothingPastFailure ==
  srvKind = "pipelined" =>
    /\ \A k \in C32_Stuck : lastWrittenId_ < k /\ Len(srvWrites) < k
    /\ \A k \in C32_Stuck, i \in DOMAIN srvCompleted :
         srvCompleted[i] > k /\ srvCompleted[i] \notin srvFailed
           => srvCompleted[i] \in DOMAIN responses_
    /\ srvWriteExc = 0

\* the first request's service call failed, the two after it completed and
\* their responses are buffered, nothing written
C32_Witness ==
  /\ srvKind = "pipelined"
  /\ srvFailed = {1}
  /\ DOMAIN responses_ = {2, 3}
  /\ srvPending = {}
  /\ srvWrites = <<>>

\* the number of leading arrivals whose service call has completed
C33_Ready ==
  LET done(n) == \A i \in 1..n : i \in Range(srvCompleted)
  IN CHOOSE n \in 0..Len(srvArrived) :
       done(n) /\ (n < Len(srvArrived) => ~done(n + 1))

\* C33: with the ids wrapping through 0 and fewer requests outstanding than
\* there are ids, the writes of the pipelined server dispatcher are the
\* responses of the leading completed arrivals, in arrival order, each once.
C33_OrderAcrossWrap ==
  /\ Len(srvWrites) = C33_Ready
  /\ \A i \in DOMAIN srvWrites : srvWrites[i] = ServiceResp(srvArrived[i])
  /\ lastWrittenId_ = (IdMod - 2 + Len(srvWrites)) % IdMod
  /\ requestId_ = (IdMod - 1 + Len(srvArrived)) % IdMod
  /\ DOMAIN responses_ =
       {(IdMod - 2 + i) % IdMod : i \in Range(srvCompleted)} \
       {(IdMod - 2 + i) % IdMod : i \in 1..Len(srvWrites)}

\* both counters have wrapped: three responses are written, of which the
\* third completed ahead of the two before it
C33_Witness ==
  /\ lastWrittenId_ < IdMod - 2
  /\ requestId_ < IdMod - 1
  /\ Len(srvWrites) = 3
  /\ srvCompleted[1] = 3
  /\ srvArrived[1] # srvArrived[2]

----------------------------------------------------------------------------
(* Claims about the decoder's other exits *)

\* the frame length decode computes from the field's value: a uint64_t sum
C34_Total ==
  (decLenVal + lengthAdjustment_ + lengthFieldOffset_ + lengthFieldLength_) % U64Mod

\* the step in which the length field of the first frame becomes readable,
\* the frame length computed from it being smaller than the header
C34_SmallFieldArrives ==
  /\ decPos < lengthFieldEndOffset_
  /\ decPos' >= lengthFieldEndOffset_
  /\ C34_Total < lengthFieldOffset_ + lengthFieldLength_

\* C34: when the frame length wraps in uint64_t to less than offset + L,
\* decode removes exactly the offset + L bytes of the header, raises one
\* "Frame too small" read-exception and returns no frame.
C34_TooSmallDropsHeader ==
  [][C34_SmallFieldArrives =>
       /\ decThrown' = "none"
       /\ decExc' = <<"Frame too small">>
       /\ decFrames' = <<>>
       /\ decQueue' = SubSeq(decWire, lengthFieldOffset_ + lengthFieldLength_ + 1,
                             decPos')]_vars

\* an 8-byte field of all ones arrived with two bytes behind it: the header
\* is gone, the two bytes are left
C34_Witness ==
  /\ lengthFieldLength_ = 8
  /\ decLenVal = U64Mod - 1
  /\ decExc = <<"Frame too small">>
  /\ decFrames = <<>>
  /\ Len(decQueue) = 2
  /\ decPos = lengthFieldEndOffset_ + 2

\* the first frame's header has not arrived in full
C35_HeaderIncomplete == decPos < lengthFieldOffset_ + lengthFieldLength_

\* the first frame's header has arrived and is valid, the frame has not
\* arrived in full
C35_FrameIncomplete ==
  /\ decPos >= lengthFieldOffset_ + lengthFieldLength_
  /\ lengthFieldOffset_ + lengthFieldLength_ <= C34_Total
  /\ C34_Total <= maxFrameLength_
  /\ decPos < C34_Total

\* C35: while fewer than offset + L bytes are queued, and while a valid
\* header is queued with fewer bytes than its frame length, decode leaves
\* the queue as it is, returns no frame and raises nothing: the queue holds
\* every byte that has arrived.
C35_WaitsForBytes ==
  (C35_HeaderIncomplete \/ C35_FrameIncomplete) =>
    /\ decQueue = SubSeq(decWire, 1, decPos)
    /\ decFrames = <<>>
    /\ decExc = <<>>
    /\ decThrown = "none"

\* a header with one byte before it has arrived and one byte of the three
\* its frame needs behind it; decode has run on them
C35_Witness ==
  /\ C35_FrameIncomplete
  /\ lengthFieldOffset_ = 1
  /\ decPos = lengthFieldEndOffset_ + 1
  /\ C34_Total = lengthFieldEndOffset_ + 3
  /\ Len(decQueue) = decPos

\* the step in which the first frame, valid and shorter than the bytes to
\* strip, becomes complete in the queue
C36_ShortFrameArrives ==
  /\ decPos < C34_Total
  /\ decPos' >= C34_Total
  /\ lengthFieldOffset_ + lengthFieldLength_ <= C34_Total
  /\ C34_Total <= maxFrameLength_
  /\ initialBytesToStrip_ > C34_Total

\* C36: when a complete frame is queued that is shorter than the bytes to
\* strip, decode removes exactly the frame's bytes, raises one
\* "InitialBytesToSkip larger than frame" read-exception and returns no frame:
\* the queue starts at the byte behind the frame.
C36_StripLargerThanFrame ==
  [][C36_ShortFrameArrives =>
       /\ decThrown' = "none"
       /\ decExc' = <<"InitialBytesToSkip larger than frame">>
       /\ decFrames' = <<>>
       /\ decQueue' = SubSeq(decWire, C34_Total + 1, decPos')]_vars

\* a frame of one byte arrived with two bytes behind it while two bytes are
\* to be stripped: the frame is gone, the two bytes are left
C36_Witness ==
  /\ initialBytesToStrip_ = 2
  /\ C34_Total = 1
  /\ decPos = 3
  /\ decExc = <<"InitialBytesToSkip larger than frame">>
  /\ decFrames = <<>>
  /\ decQueue = SubSeq(decWire, 2, 3)

----------------------------------------------------------------------------
(* Claims about the socket handler's close and transportInactive *)

\* C37: close on the socket handler while the write flags ask for a
\* write-only shutdown only shuts the transport's write side down: the
\* transport is not closed, the read callback stays as it was, no
\* transportInactive is fired and the pipeline is not deleted.
C37_HalfClose ==
  [][(writeFlags_ /\ \E r \in Reactions : SockClose(r)) =>
       /\ socket_' = (IF socket_ = "good" THEN "wrshut" ELSE socket_)
       /\ sockReadCB' = sockReadCB
       /\ firedInactive_' = firedInactive_
       /\ sockInactives' = sockInactives
       /\ pipelineDeleted_' = pipelineDeleted_
       /\ mgrDeletes' = mgrDeletes
       /\ transport_' = transport_]_vars

\* close was called on an active good transport with the write-only flag
\* set: the write side is shut down, the read callback is installed, nothing
\* was fired or deleted
C37_Witness ==
  /\ writeFlags_
  /\ Len(sockLog) = 1
  /\ sockLog[1].op = "close"
  /\ sockLog[1].wso
  /\ socket_ = "wrshut"
  /\ sockReadCB
  /\ transport_
  /\ sockInactives = 0
  /\ ~pipelineDeleted_

\* C38: the socket handler fires transportInactive only while the transport
\* is active, that is after a transportActive with no transportInactive
\* fired since, and so at most once for each transportActive.
C38_InactiveOnlyWhileActive ==
  [][sockInactives' > sockInactives =>
       /\ sockActives > 0
       /\ ~firedInactive_
       /\ sockInactives' = sockInactives + 1
       /\ sockInactives' <= sockActives]_vars

----------------------------------------------------------------------------
(* Claims about the OutputBufferingHandler *)

\* the buffers of the write calls that were given an eventual of promise g,
\* in the order of the calls
C39_BufsOf(g) ==
  LET sel == SelectSeq(obCalls, LAMBDA c : c.promise = g)
  IN [i \in DOMAIN sel |-> sel[i].buf]

\* C39: with queueSends_ set, the writes called between two runs of the loop
\* callback go downstream as one write that carries their buffers in the
\* order of the calls, their eventuals all have that write's result, and
\* the loop callback is scheduled exactly while sends are buffered.
C39_OneWritePerLoop ==
  queueSends_ =>
    /\ obScheduled <=> sends_ # <<>>
    /\ sends_ = C39_BufsOf(sharedPromise_)
    /\ \A d \in DOMAIN obDown :
         /\ obDown[d].bufs # <<>>
         /\ obDown[d].bufs = C39_BufsOf(obDown[d].promise)
         /\ obPromises[obDown[d].promise] = obDown[d].result
         /\ \A e \in DOMAIN obDown : obDown[e].promise = obDown[d].promise => e = d
    /\ \A i \in DOMAIN obCalls :
         \/ obCalls[i].promise = sharedPromise_
         \/ obPromises[obCalls[i].promise] = ClosePending
         \/ \E d \in DOMAIN obDown : obDown[d].promise = obCalls[i].promise

\* two writes went downstream as one, the second buffer behind the first,
\* that write failed and so did their eventuals; a third is buffered
C39_Witness ==
  /\ queueSends_
  /\ Len(obDown) = 1
  /\ obDown[1].bufs = <<2, 1>>
  /\ obDown[1].result = "failed"
  /\ obPromises[obCalls[1].promise] = "failed"
  /\ obPromises[obCalls[2].promise] = "failed"
  /\ Len(sends_) = 1
  /\ obScheduled

\* C40: close with sends buffered cancels the loop callback, fails the
\* eventuals of the buffered writes with "close() called while sends still
\* pending" and then fires close, writing nothing; it leaves no sends, no
\* callback and a new promise, and the next write is buffered and schedules
\* the callback again.  No buffer of a write failed so ever goes downstream.
C40_CloseCancelsSends ==
  [][/\ (obCloses' > obCloses /\ sends_ # <<>>) =>
          /\ obLast' = <<"cancelLoopCallback", "setException", "reset", "fireClose">>
          /\ obDown' = obDown
          /\ \A i \in DOMAIN obCalls :
               i > Len(obCalls) - Len(sends_)
                 => obPromises'[obCalls[i].promise] = ClosePending
          /\ sends_' = <<>>
          /\ ~obScheduled'
          /\ obPromises'[sharedPromise_'] = "pending"
          /\ \A i \in DOMAIN obCalls : obCalls[i].promise # sharedPromise_'
     /\ (queueSends_ /\ obCloses > 0 /\ Len(obCalls') > Len(obCalls) /\ sends_ = <<>>) =>
          /\ Len(sends_') = 1
          /\ obScheduled'
          /\ obPromises'[obCalls'[Len(obCalls')].promise] = "pending"
     /\ queueSends_ =>
          \A d \in DOMAIN obDown' : obPromises'[obDown'[d].promise] # ClosePending]_vars

\* two writes were buffered and cancelled by close, nothing went downstream
\* for them; the write called after it went downstream alone
C40_Witness ==
  /\ queueSends_
  /\ obCloses = 1
  /\ Len(obCalls) = 3
  /\ obPromises[obCalls[1].promise] = ClosePending
  /\ obPromises[obCalls[2].promise] = ClosePending
  /\ Len(obDown) = 1
  /\ obDown[1].bufs = <<obCalls[3].buf>>
  /\ obDown[1].result = "ok"

====
